---- MODULE Spec2Model ----
(***************************************************************************)
(* Span alignment recovery of latinepi: the multi-strategy resolver        *)
(* try_alignment_strategies and the conversion driver                      *)
(* create_spacy_file_robust (robust_spacy_converter.py), and the failure   *)
(* classifier diagnose_failure_reason with its driver                      *)
(* diagnose_alignment_issues (diagnose_alignment_issues.py), and the       *)
(* AnnotationValidator with its main (validate_annotations.py).  Around    *)
(* them: download_edh_inscription (latinepi/edh_utils.py), the model cache *)
(* of latinepi/parser.py and the checkpointed batch run                    *)
(* GeminiAnnotator.annotate_batch (batch_annotate_with_gemini.py).         *)
(*                                                                         *)
(* Offsets are 0-based character offsets as in the Python code; a text is  *)
(* a sequence of one-character strings, so the character at offset i is    *)
(* text[i + 1].  Token indices are 0-based too: token t is doc[t + 1].     *)
(*                                                                         *)
(* The code calls three spaCy operations.  They are modelled by what the   *)
(* library does:                                                           *)
(*   nlp.make_doc   every token is [idx, len, spacy]; a single space after *)
(*                  a word is that word's trailing space (spacy = TRUE),   *)
(*                  every other run of spaces is a token of its own, and   *)
(*                  a run of non-space characters is cut into one or more  *)
(*                  tokens (where, depends on the language rules: every    *)
(*                  way of cutting is a possible document);                *)
(*   Doc.char_span  token_by_char looks up the token whose text or         *)
(*                  trailing space holds an offset, the alignment mode     *)
(*                  adjusts the two token indices, and the Span            *)
(*                  constructor raises IndexError unless                   *)
(*                  0 <= start <= end <= len(doc);                         *)
(*   filter_spans   sort by (length, -start) descending, keep a span when  *)
(*                  neither its first nor its last token is taken.         *)
(***************************************************************************)
EXTENDS FiniteSets, Integers, Sequences, TLC

VARIABLES
  text,     \* the text of the current record
  doc,      \* its tokens
  call,     \* the last call of a pure function, with its result
  limits,   \* the size of the input file being converted
  pc,       \* where create_spacy_file_robust is
  line,     \* lines of the input file read so far
  nAnn,     \* annotations of the current record seen so far
  ents,     \* the aligned candidates of the current record
  kept,     \* doc.ents of the last closed record, as positions in ents
  stats,    \* the statistics counters
  offered,  \* three-element annotations handed to the alignment so far
  input,    \* the lines of the input file read so far, by what they hold
  stdout,   \* the line numbers of the invalid-JSON warnings printed
  validator, \* the fields of the AnnotationValidator object
  main,     \* where validate_annotations.py is, and its exit status
  diag,     \* where diagnose_alignment_issues is, and its counters
  edh,      \* a call of download_edh_inscription and what it did
  loader,   \* the module globals of latinepi.parser and its calls
  gemini    \* a run of GeminiAnnotator.annotate_batch and its files

vars ==
  <<text, doc, call, limits, pc, line, nAnn, ents, kept, stats, offered,
    input, stdout, validator, main, diag, edh, loader, gemini>>

----------------------------------------------------------------------------
(* Bounds of the model *)

\* longest generated text, in characters
MaxLen == 4
\* raw offsets range over -Margin .. len(text) + Margin
Margin == 3
\* a file of many short records: its lines, the annotations per record,
\* the longest text and the margin of the raw offsets
MaxLines == 2
MaxAnn == 2
MaxShortLen == 2
ShortMargin == 2
\* a file of one long record (texts up to MaxLen, offsets inside the text)
LongAnn == 3
LongMargin == 0

\* the validator's input: a file of MaxValLines records of at most one
\* annotation or a file of one record of at most MaxValAnn annotations;
\* offsets range over -ValMargin .. len(text) + ValMargin
MaxValLines == 2
MaxValAnn == 2
ValMargin == 1

\* the length of the long annotation list of the validator's input
MaxLongList == 6

Labels == {"nomen", "x"}

----------------------------------------------------------------------------
(* Texts *)

IsSpace(c) == c = " "

Ch(t, i) == t[i + 1]

RECURSIVE TextsOfLen(_)
TextsOfLen(n) ==
  IF n = 0 THEN {<<>>}
  ELSE {Append(t, c) : t \in TextsOfLen(n - 1), c \in {"a", " "}}

\* the text and tokens of the scenarios of the design document
ScenarioText ==
  <<"D", " ", "M", " ", "G", "A", "I", "V", "S", " ",
    "I", "V", "L", "I", "V", "S", " ", "C", "A", "E", "S", "A", "R">>

Texts == UNION {TextsOfLen(n) : n \in 1..MaxLen}

----------------------------------------------------------------------------
(* nlp.make_doc: the tokenizer *)

\* "word": a non-space character; "sp": the single space that follows a
\* word (the word's trailing space); "ws": any other space
CharClass(t, i) ==
  IF ~IsSpace(Ch(t, i)) THEN "word"
  ELSE IF i > 0 /\ ~IsSpace(Ch(t, i - 1)) THEN "sp"
  ELSE "ws"

\* offsets inside a run of non-space characters where the rules may cut it
CutPoints(t) ==
  {i \in 1..(Len(t) - 1) : ~IsSpace(Ch(t, i)) /\ ~IsSpace(Ch(t, i - 1))}

IsTokenStart(t, cuts, i) ==
  /\ CharClass(t, i) # "sp"
  /\ \/ i = 0
     \/ CharClass(t, i - 1) # CharClass(t, i)
     \/ CharClass(t, i) = "word" /\ i \in cuts

RECURSIVE TokenEndFrom(_, _, _, _)
TokenEndFrom(t, cuts, i, j) ==
  IF j >= Len(t) THEN Len(t)
  ELSE IF CharClass(t, j) # CharClass(t, i) \/ IsTokenStart(t, cuts, j) THEN j
  ELSE TokenEndFrom(t, cuts, i, j + 1)

RECURSIVE ScanTokens(_, _, _)
ScanTokens(t, cuts, i) ==
  IF i >= Len(t) THEN <<>>
  ELSE IF IsTokenStart(t, cuts, i)
    THEN LET e == TokenEndFrom(t, cuts, i, i + 1)
         IN <<[idx |-> i, len |-> e - i,
               spacy |-> (e < Len(t) /\ CharClass(t, e) = "sp")]>>
              \o ScanTokens(t, cuts, e)
    ELSE ScanTokens(t, cuts, i + 1)

make_doc(t, cuts) == ScanTokens(t, cuts, 0)

\* the documents of the model: every generated text under every way of
\* cutting its words, and the scenario text cut at its spaces only
Documents ==
  UNION {{[text |-> t, doc |-> make_doc(t, c)] : c \in SUBSET CutPoints(t)} :
         t \in Texts}
  \cup {[text |-> ScenarioText, doc |-> make_doc(ScenarioText, {})]}

Tok(d, t) == d[t + 1]

TokEnd(d, t) == d[t + 1].idx + d[t + 1].len

----------------------------------------------------------------------------
(* Doc.char_span *)

None == [kind |-> "none"]

Raised == [kind |-> "raise"]

IsSpan(r) == r.kind = "span"

\* Span(doc, start, end): IndexError unless 0 <= start <= end <= len(doc)
MkSpan(d, textLen, s, e, label) ==
  IF ~(0 <= s /\ s <= e /\ e <= Len(d)) THEN Raised
  ELSE [kind |-> "span", start |-> s, end |-> e, label |-> label,
        start_char |-> IF s < Len(d) THEN Tok(d, s).idx ELSE textLen,
        end_char |-> IF e >= 1 THEN TokEnd(d, e - 1) ELSE 0]

\* binary search for the token whose text or trailing space holds char_idx
RECURSIVE TokenByCharBetween(_, _, _, _)
TokenByCharBetween(d, char_idx, lo, hi) ==
  IF lo > hi THEN -1
  ELSE LET mid == (lo + hi) \div 2
       IN IF char_idx < Tok(d, mid).idx
            THEN TokenByCharBetween(d, char_idx, lo, mid - 1)
          ELSE IF char_idx >= TokEnd(d, mid) + (IF Tok(d, mid).spacy THEN 1 ELSE 0)
            THEN TokenByCharBetween(d, char_idx, mid + 1, hi)
          ELSE mid

token_by_char(d, char_idx) == TokenByCharBetween(d, char_idx, 0, Len(d) - 1)

char_span(d, textLen, start_idx, end_idx, label, mode) ==
  LET start == token_by_char(d, start_idx)
      end == token_by_char(d, end_idx - 1)
  IN IF start < 0 \/ (mode = "strict" /\ start_idx # Tok(d, start).idx) THEN None
     ELSE IF end < 0 \/ (mode = "strict" /\ end_idx # TokEnd(d, end)) THEN None
     ELSE IF mode = "contract"
       THEN LET s2 == IF Tok(d, start).idx < start_idx THEN start + 1 ELSE start
                e2 == IF end_idx < TokEnd(d, end) THEN end - 1 ELSE end
            IN IF e2 < s2 THEN None ELSE MkSpan(d, textLen, s2, e2 + 1, label)
     ELSE LET s2 == IF mode = "expand" /\ start_idx = TokEnd(d, start)
                      THEN start + 1 ELSE start
          IN MkSpan(d, textLen, s2, end + 1, label)

----------------------------------------------------------------------------
(* Python string helpers on character sequences *)

Slice(t, a, b) == SubSeq(t, a + 1, b)

RECURSIVE LeadingSpaces(_)
LeadingSpaces(s) ==
  IF s = <<>> \/ ~IsSpace(Head(s)) THEN 0 ELSE 1 + LeadingSpaces(Tail(s))

RECURSIVE TrailingSpaces(_)
TrailingSpaces(s) ==
  IF s = <<>> \/ ~IsSpace(s[Len(s)]) THEN 0
  ELSE 1 + TrailingSpaces(SubSeq(s, 1, Len(s) - 1))

\* s.strip()
Strip(s) ==
  IF LeadingSpaces(s) = Len(s) THEN <<>>
  ELSE SubSeq(s, LeadingSpaces(s) + 1, Len(s) - TrailingSpaces(s))

\* len(s.split()): the number of maximal runs of non-space characters
WordCount(s) ==
  Cardinality({i \in 1..Len(s) : ~IsSpace(s[i]) /\ (i = 1 \/ IsSpace(s[i - 1]))})

Max(a, b) == IF a >= b THEN a ELSE b

Min(a, b) == IF a <= b THEN a ELSE b

InBounds(t, start, end) == 0 <= start /\ start < end /\ end <= Len(t)

----------------------------------------------------------------------------
(* try_alignment_strategies: the six rungs of the ladder *)

\* (mutant) the first rung called with the wrong alignment mode
Strategy1Expand(d, t, start, end, label) ==
  char_span(d, Len(t), start, end, label, "expand")

\* Strategy 1: strict alignment on the raw bounds
Strategy1(d, t, start, end, label) ==
  char_span(d, Len(t), start, end, label, "strict")

\* (mutant) the second rung called with the wrong alignment mode
Strategy2Contract(d, t, start, end, label) ==
  char_span(d, Len(t), start, end, label, "contract")

\* Strategy 2: expand mode on the raw bounds
Strategy2(d, t, start, end, label) ==
  char_span(d, Len(t), start, end, label, "expand")

\* Strategy 3: strip whitespace, then strict, then expand on the new bounds
TrimApplies(t, start, end) ==
  /\ InBounds(t, start, end)
  /\ Strip(Slice(t, start, end)) # <<>>
  /\ Strip(Slice(t, start, end)) # Slice(t, start, end)

TrimStart(t, start, end) == start + LeadingSpaces(Slice(t, start, end))

\* (mutant) the trailing whitespace run left in the span
TrimEndUntrimmed(t, start, end) == end

TrimEnd(t, start, end) == end - TrailingSpaces(Slice(t, start, end))

Strategy3(d, t, start, end, label) ==
  IF TrimApplies(t, start, end)
    THEN LET new_start == TrimStart(t, start, end)
             new_end == TrimEnd(t, start, end)
             strict == char_span(d, Len(t), new_start, new_end, label, "strict")
         IN IF strict # None THEN strict
            ELSE char_span(d, Len(t), new_start, new_end, label, "expand")
    ELSE None

\* Strategy 4: both bounds shifted by the same amount, clamped to the text
UniformShifts == <<-1, 1, -2, 2>>

\* (mutant) the shifted retry made with a fixed label
ShiftedExpandDefaultLabel(d, t, start, end, label, start_shift, end_shift) ==
  char_span(d, Len(t), Max(0, start + start_shift),
            Min(Len(t), end + end_shift), "nomen", "expand")

ShiftedExpand(d, t, start, end, label, start_shift, end_shift) ==
  char_span(d, Len(t), Max(0, start + start_shift),
            Min(Len(t), end + end_shift), label, "expand")

RECURSIVE Strategy4From(_, _, _, _, _, _)
Strategy4From(d, t, start, end, label, k) ==
  IF k > Len(UniformShifts) THEN None
  ELSE LET span == ShiftedExpand(d, t, start, end, label,
                                 UniformShifts[k], UniformShifts[k])
       IN IF span # None THEN span
          ELSE Strategy4From(d, t, start, end, label, k + 1)

Strategy4(d, t, start, end, label) == Strategy4From(d, t, start, end, label, 1)

\* Strategy 5: start and end shifted independently, row-major over
\* start_shift then end_shift
IndependentShifts == <<-2, -1, 0, 1, 2>>

RECURSIVE Strategy5From(_, _, _, _, _, _, _)
Strategy5From(d, t, start, end, label, i, j) ==
  IF i > Len(IndependentShifts) THEN None
  ELSE IF j > Len(IndependentShifts)
    THEN Strategy5From(d, t, start, end, label, i + 1, 1)
  ELSE LET start_shift == IndependentShifts[i]
           end_shift == IndependentShifts[j]
           new_start == Max(0, start + start_shift)
           new_end == Min(Len(t), end + end_shift)
       IN IF (start_shift = 0 /\ end_shift = 0) \/ new_start >= new_end
            THEN Strategy5From(d, t, start, end, label, i, j + 1)
          ELSE LET span == ShiftedExpand(d, t, start, end, label,
                                         start_shift, end_shift)
               IN IF span # None THEN span
                  ELSE Strategy5From(d, t, start, end, label, i, j + 1)

Strategy5(d, t, start, end, label) ==
  Strategy5From(d, t, start, end, label, 1, 1)

\* (mutant) the last rung called with the wrong alignment mode
Strategy6Expand(d, t, start, end, label) ==
  char_span(d, Len(t), start, end, label, "expand")

\* Strategy 6: contract mode on the raw bounds
Strategy6(d, t, start, end, label) ==
  char_span(d, Len(t), start, end, label, "contract")

Rung(k, d, t, start, end, label) ==
  CASE k = 1 -> Strategy1(d, t, start, end, label)
    [] k = 2 -> Strategy2(d, t, start, end, label)
    [] k = 3 -> Strategy3(d, t, start, end, label)
    [] k = 4 -> Strategy4(d, t, start, end, label)
    [] k = 5 -> Strategy5(d, t, start, end, label)
    [] k = 6 -> Strategy6(d, t, start, end, label)

\* (mutant) the ladder with its first two rungs in the wrong order
LadderExpandFirst(d, t, start, end, label) ==
  IF Strategy2(d, t, start, end, label) # None
    THEN [rung |-> 2, out |-> Strategy2(d, t, start, end, label)]
  ELSE IF Strategy1(d, t, start, end, label) # None
    THEN [rung |-> 1, out |-> Strategy1(d, t, start, end, label)]
  ELSE IF Strategy4(d, t, start, end, label) # None
    THEN [rung |-> 4, out |-> Strategy4(d, t, start, end, label)]
  ELSE IF Strategy5(d, t, start, end, label) # None
    THEN [rung |-> 5, out |-> Strategy5(d, t, start, end, label)]
  ELSE [rung |-> 0, out |-> None]

\* (mutant) the ladder with the whitespace trim tried before Strict and
\* Expand
LadderTrimFirst(d, t, start, end, label) ==
  IF Strategy3(d, t, start, end, label) # None
    THEN [rung |-> 3, out |-> Strategy3(d, t, start, end, label)]
  ELSE IF Strategy1(d, t, start, end, label) # None
    THEN [rung |-> 1, out |-> Strategy1(d, t, start, end, label)]
  ELSE IF Strategy2(d, t, start, end, label) # None
    THEN [rung |-> 2, out |-> Strategy2(d, t, start, end, label)]
  ELSE [rung |-> 0, out |-> None]

\* the ladder: out is what the function returns (a span, None, or the
\* IndexError a char_span call raised), rung the strategy that ended it
\* (0 when every strategy returned None)
try_alignment_strategies(d, t, start, end, label) ==
  IF Strategy1(d, t, start, end, label) # None
    THEN [rung |-> 1, out |-> Strategy1(d, t, start, end, label)]
  ELSE IF Strategy2(d, t, start, end, label) # None
    THEN [rung |-> 2, out |-> Strategy2(d, t, start, end, label)]
  ELSE IF Strategy3(d, t, start, end, label) # None
    THEN [rung |-> 3, out |-> Strategy3(d, t, start, end, label)]
  ELSE IF Strategy4(d, t, start, end, label) # None
    THEN [rung |-> 4, out |-> Strategy4(d, t, start, end, label)]
  ELSE IF Strategy5(d, t, start, end, label) # None
    THEN [rung |-> 5, out |-> Strategy5(d, t, start, end, label)]
  ELSE IF Strategy6(d, t, start, end, label) # None
    THEN [rung |-> 6, out |-> Strategy6(d, t, start, end, label)]
  ELSE [rung |-> 0, out |-> None]

----------------------------------------------------------------------------
(* diagnose_failure_reason: the failure classifier *)

\* a reason is its name and, for tokenization_mismatch_expected_N_got_M,
\* the two numbers formatted into it
Reason(name) == [name |-> name, expected |-> 0, got |-> 0]

Mismatch(n, m) == [name |-> "tokenization_mismatch", expected |-> n, got |-> m]

OutOfBoundsText ==
  <<"[", "O", "U", "T", " ", "O", "F", " ", "B", "O", "U", "N", "D", "S", "]">>

\* the caller's expected_text
ExpectedText(t, start, end) ==
  IF InBounds(t, start, end) THEN Slice(t, start, end) ELSE OutOfBoundsText

\* the tokens whose text overlaps [start, end)
OverlappingTokens(d, start, end) ==
  {k \in 0..(Len(d) - 1) : ~(end <= Tok(d, k).idx \/ start >= TokEnd(d, k))}

SetMin(S) == CHOOSE x \in S : \A y \in S : x <= y

SetMax(S) == CHOOSE x \in S : \A y \in S : x >= y

\* (mutant) the last check falls through without a reason
MismatchReasonNoFallback(overlapping_tokens, expected_text) ==
  IF Cardinality(overlapping_tokens) # WordCount(expected_text)
    THEN Mismatch(WordCount(expected_text), Cardinality(overlapping_tokens))
  ELSE Reason("none")

\* the last check: unexpected splits, else unknown_reason
MismatchReason(overlapping_tokens, expected_text) ==
  IF Cardinality(overlapping_tokens) # WordCount(expected_text)
    THEN Mismatch(WordCount(expected_text), Cardinality(overlapping_tokens))
  ELSE Reason("unknown_reason")

\* (mutant) the classifier with the whitespace checks before the mid-token
\* checks
DiagnoseWhitespaceFirst(d, t, start, end, expected_text) ==
  IF start < 0 \/ end > Len(t) \/ start >= end THEN Reason("out_of_bounds")
  ELSE IF Strip(expected_text) = <<>> THEN Reason("whitespace_only")
  ELSE LET overlapping_tokens == OverlappingTokens(d, start, end)
       IN IF overlapping_tokens = {} THEN Reason("no_overlapping_tokens")
          ELSE IF IsSpace(Ch(t, start)) THEN Reason("starts_with_whitespace")
          ELSE IF IsSpace(Ch(t, end - 1)) THEN Reason("ends_with_whitespace")
          ELSE LET first_token == SetMin(overlapping_tokens)
                   last_token == SetMax(overlapping_tokens)
                   starts_mid_token == /\ start > Tok(d, first_token).idx
                                       /\ start < TokEnd(d, first_token)
                   ends_mid_token == /\ end > Tok(d, last_token).idx
                                     /\ end < TokEnd(d, last_token)
               IN IF starts_mid_token /\ ends_mid_token
                    THEN Reason("both_boundaries_mid_token")
                  ELSE IF starts_mid_token THEN Reason("start_mid_token")
                  ELSE IF ends_mid_token THEN Reason("end_mid_token")
                  ELSE MismatchReason(overlapping_tokens, expected_text)

diagnose_failure_reason(d, t, start, end, expected_text) ==
  IF start < 0 \/ end > Len(t) \/ start >= end THEN Reason("out_of_bounds")
  ELSE IF Strip(expected_text) = <<>> THEN Reason("whitespace_only")
  ELSE LET overlapping_tokens == OverlappingTokens(d, start, end)
       IN IF overlapping_tokens = {} THEN Reason("no_overlapping_tokens")
          ELSE LET first_token == SetMin(overlapping_tokens)
                   last_token == SetMax(overlapping_tokens)
                   starts_mid_token == /\ start > Tok(d, first_token).idx
                                       /\ start < TokEnd(d, first_token)
                   ends_mid_token == /\ end > Tok(d, last_token).idx
                                     /\ end < TokEnd(d, last_token)
               IN IF starts_mid_token /\ ends_mid_token
                    THEN Reason("both_boundaries_mid_token")
                  ELSE IF starts_mid_token THEN Reason("start_mid_token")
                  ELSE IF ends_mid_token THEN Reason("end_mid_token")
                  ELSE IF Slice(t, start, start + 1) # <<>> /\ IsSpace(Ch(t, start))
                    THEN Reason("starts_with_whitespace")
                  ELSE IF end > 0 /\ IsSpace(Ch(t, end - 1))
                    THEN Reason("ends_with_whitespace")
                  ELSE MismatchReason(overlapping_tokens, expected_text)

\* the five alignment methods of the diagnostics loop, in its order; the
\* classifier runs only when all five returned None
DiagnoseMethods(d, t, start, end, label) ==
  <<[method |-> "perfect_expand",
     out |-> char_span(d, Len(t), start, end, label, "expand")],
    [method |-> "contract",
     out |-> char_span(d, Len(t), start, end, label, "contract")],
    [method |-> "strict",
     out |-> char_span(d, Len(t), start, end, label, "strict")],
    [method |-> "shift_plus_one",
     out |-> char_span(d, Len(t), start + 1, end + 1, label, "expand")],
    [method |-> "shift_minus_one",
     out |-> char_span(d, Len(t), start - 1, end - 1, label, "expand")]>>

RECURSIVE DiagnoseFrom(_, _, _, _, _, _)
DiagnoseFrom(d, t, start, end, label, k) ==
  IF k > 5
    THEN [method |-> "failed", out |-> None,
          reason |-> diagnose_failure_reason(d, t, start, end,
                                             ExpectedText(t, start, end))]
  ELSE LET m == DiagnoseMethods(d, t, start, end, label)[k]
       IN IF m.out # None
            THEN [method |-> m.method, out |-> m.out, reason |-> Reason("none")]
          ELSE DiagnoseFrom(d, t, start, end, label, k + 1)

diagnose_entity(d, t, start, end, label) ==
  DiagnoseFrom(d, t, start, end, label, 1)

----------------------------------------------------------------------------
(* filter_spans: overlap resolution.  Spans are named by their position in *)
(* the candidate list, as the Python objects are by identity.              *)

SpanLen(sp) == sp.end - sp.start

\* (mutant) ties in length broken by the input order alone
SortsBeforeInputOrder(spans, i, j) ==
  \/ SpanLen(spans[i]) > SpanLen(spans[j])
  \/ SpanLen(spans[i]) = SpanLen(spans[j]) /\ i < j

\* i comes before j in sorted(spans, key=(length, -start), reverse=True);
\* the sort is stable, so equal keys keep the input order
SortsBefore(spans, i, j) ==
  \/ SpanLen(spans[i]) > SpanLen(spans[j])
  \/ SpanLen(spans[i]) = SpanLen(spans[j]) /\ spans[i].start < spans[j].start
  \/ /\ SpanLen(spans[i]) = SpanLen(spans[j])
     /\ spans[i].start = spans[j].start
     /\ i < j

RECURSIVE SortedSpans(_, _)
SortedSpans(spans, rest) ==
  IF rest = {} THEN <<>>
  ELSE LET i == CHOOSE x \in rest : \A y \in rest \ {x} : SortsBefore(spans, x, y)
       IN <<i>> \o SortedSpans(spans, rest \ {i})

\* (mutant) only the first token of a span is looked up
AcceptsStartOnly(sp, seen_tokens) == sp.start \notin seen_tokens

\* (mutant) the exclusive end is looked up instead of the last token
AcceptsEndExclusive(sp, seen_tokens) ==
  sp.start \notin seen_tokens /\ sp.end \notin seen_tokens

\* the greedy pass: accept a span when neither its first nor its last
\* token was seen
Accepts(sp, seen_tokens) ==
  sp.start \notin seen_tokens /\ (sp.end - 1) \notin seen_tokens

RECURSIVE GreedyPass(_, _, _, _)
GreedyPass(spans, order, result, seen_tokens) ==
  IF order = <<>> THEN result
  ELSE LET sp == spans[Head(order)]
       IN IF Accepts(sp, seen_tokens)
            THEN GreedyPass(spans, Tail(order), Append(result, Head(order)),
                            seen_tokens \cup (sp.start..(sp.end - 1)))
          ELSE GreedyPass(spans, Tail(order), result, seen_tokens)

\* sorted(result, key=span.start), stable
RECURSIVE SortedByStart(_, _)
SortedByStart(spans, rest) ==
  IF rest = <<>> THEN <<>>
  ELSE LET k == CHOOSE x \in 1..Len(rest) :
                  \A y \in 1..Len(rest) :
                    \/ spans[rest[x]].start < spans[rest[y]].start
                    \/ spans[rest[x]].start = spans[rest[y]].start /\ x <= y
       IN <<rest[k]>> \o
          SortedByStart(spans, SubSeq(rest, 1, k - 1) \o SubSeq(rest, k + 1, Len(rest)))

filter_spans(spans) ==
  SortedByStart(spans,
    GreedyPass(spans, SortedSpans(spans, 1..Len(spans)), <<>>, {}))

----------------------------------------------------------------------------
(* validate_annotations.py: the AnnotationValidator                        *)
(*                                                                         *)
(* A line of the input file is invalid JSON, a JSON value that is no       *)
(* object (a number, null or a boolean; an array or a string), or an       *)
(* object.  Of an object the validator looks at whether it has an id, at   *)
(* its transcription (missing, a string, or another value, here null) and  *)
(* at its annotations (missing, a list, or another value, which            *)
(* _compute_statistics and _print_report test for truth).  An annotation   *)
(* is no three-element list, a triple whose offsets are not integers, a    *)
(* triple whose label is no string, or a triple (int, int, string).        *)

\* entity_examples holds at most this many examples per label
MaxExamples == 5
\* _print_report prints this many sample records ...
MaxSamples == 3
\* ... and this many annotations of each
MaxSampleEntities == 10

\* a ledger entry: the line number and annotation index its message names
\* (ann = -1 for a message about the record), and what the message says
Entry(line_num, ann_index, what) ==
  [line |-> line_num, ann |-> ann_index, what |-> what]

\* AnnotationValidator.__init__
NewValidator ==
  [errors |-> <<>>, warnings |-> <<>>,
   entity_counts |-> [l \in Labels |-> 0],
   entity_examples |-> [l \in Labels |-> <<>>],
   stats |-> [total_records |-> 0, total_entities |-> 0,
              annotated_records |-> 0, empty_records |-> 0,
              unique_entity_types |-> 0]]

AddError(v, e) == [v EXCEPT !.errors = Append(@, e)]

AddWarning(v, e) == [v EXCEPT !.warnings = Append(@, e)]

MissingTranscription == [kind |-> "missing", chars |-> <<>>]

NullTranscription == [kind |-> "null", chars |-> <<>>]

StrTranscription(t) == [kind |-> "str", chars |-> t]

\* (mutant) the whitespace-only span reported as an error
WhitespaceOnlyAsError(v, line_num, ann_index) ==
  AddError(v, Entry(line_num, ann_index, "whitespace_only"))

\* the check for empty spans
WhitespaceOnly(v, line_num, ann_index) ==
  AddWarning(v, Entry(line_num, ann_index, "whitespace_only"))

\* the bounds checks and the tracking of _validate_annotation, for a triple
\* (int, int, string); len(text) raises TypeError when the transcription
\* is no string
\* (mutant) every example stored
StoreExampleUncapped(examples, span_text) == Append(examples, span_text)

\* Store examples (limit to 5 per type)
StoreExample(examples, span_text) ==
  IF Len(examples) < MaxExamples THEN Append(examples, span_text)
  ELSE examples

CheckBounds(v, start, end, label, tr, line_num, ann_index) ==
  LET v1 == IF start < 0
              THEN AddError(v, Entry(line_num, ann_index, "negative_start"))
            ELSE v
      v2 == IF end > Len(tr.chars)
              THEN AddError(v1, Entry(line_num, ann_index, "end_exceeds_length"))
            ELSE v1
      v3 == IF start >= end
              THEN AddError(v2, Entry(line_num, ann_index, "start_not_before_end"))
            ELSE v2
      span_text == Slice(tr.chars, start, end)
      v4 == IF Strip(span_text) = <<>>
              THEN WhitespaceOnly(v3, line_num, ann_index)
            ELSE v3
  IN IF tr.kind # "str" THEN [raised |-> TRUE, v |-> v1]
     ELSE IF InBounds(tr.chars, start, end)
       THEN [raised |-> FALSE,
             v |-> [v4 EXCEPT
                      !.entity_counts[label] = @ + 1,
                      !.entity_examples[label] = StoreExample(@, span_text)]]
     ELSE [raised |-> FALSE, v |-> v3]

\* _validate_annotation(annotation, text, line_num, ann_index, record_id)
validate_annotation(v, annotation, tr, line_num, ann_index) ==
  CASE annotation.kind = "malformed" ->
         [raised |-> FALSE,
          v |-> AddError(v, Entry(line_num, ann_index, "invalid_format"))]
    [] annotation.kind = "badints" ->
         [raised |-> FALSE,
          v |-> AddError(v, Entry(line_num, ann_index, "not_integers"))]
    [] annotation.kind = "badlabel" ->
         [raised |-> FALSE,
          v |-> AddError(v, Entry(line_num, ann_index, "label_not_string"))]
    [] OTHER ->
         CheckBounds(v, annotation.start, annotation.end, annotation.label,
                     tr, line_num, ann_index)

\* what _compute_statistics and _print_report need of a record: is it a
\* JSON object, are its annotations true (a non-empty list, or a true
\* value of another type), and can _print_report print it as a sample
\* (a string transcription, a list of annotations, the first
\* MaxSampleEntities of them triples (int, int, string))
Summary(is_dict, annotated, printable) ==
  [dict |-> is_dict, annotated |-> annotated, printable |-> printable]

\* _compute_statistics(records); r.get raises AttributeError on a record
\* that is no object
StatsRaise(records) == \E k \in 1..Len(records) : ~records[k].dict

\* sum(self.entity_counts.values())
RECURSIVE SumCounts(_, _)
SumCounts(counts, keys) ==
  IF keys = {} THEN 0
  ELSE LET l == CHOOSE x \in keys : TRUE
       IN counts[l] + SumCounts(counts, keys \ {l})

compute_statistics(v, records) ==
  [v EXCEPT !.stats =
     [total_records |-> Len(records),
      total_entities |-> SumCounts(v.entity_counts, Labels),
      annotated_records |->
        Cardinality({k \in 1..Len(records) : records[k].annotated}),
      empty_records |->
        Cardinality({k \in 1..Len(records) : ~records[k].annotated}),
      unique_entity_types |->
        Cardinality({l \in Labels : v.entity_counts[l] > 0})]]

\* the sample records of _print_report: the first MaxSamples records with
\* annotations
Samples(records) ==
  {k \in 1..Len(records) :
     /\ records[k].annotated
     /\ Cardinality({j \in 1..k : records[j].annotated}) <= MaxSamples}

\* _print_report raises (KeyError, TypeError or ValueError) on a sample it
\* cannot print
ReportRaises(records) == \E k \in Samples(records) : ~records[k].printable

\* the dict validate_file returns
Report(v, records) ==
  [total_records |-> Len(records),
   total_errors |-> Len(v.errors),
   total_warnings |-> Len(v.warnings),
   entity_counts |-> v.entity_counts]

NoReport ==
  [total_records |-> 0, total_errors |-> 0, total_warnings |-> 0,
   entity_counts |-> [l \in Labels |-> 0]]

----------------------------------------------------------------------------
(* The loop body of create_spacy_file_robust for one annotation *)

\* (mutant) the ladder called for every annotation
align_entity_ladder_only(d, t, start, end, label) ==
  LET alt == try_alignment_strategies(d, t, start, end, label)
  IN IF alt.out = Raised
       THEN [outcome |-> "raised", rung |-> alt.rung, out |-> Raised]
     ELSE IF alt.out # None
       THEN [outcome |-> "recovered", rung |-> alt.rung, out |-> alt.out]
     ELSE [outcome |-> "dropped", rung |-> 0, out |-> None]

\* expand on the raw bounds first, the ladder only when that returned None
align_entity(d, t, start, end, label) ==
  LET first == char_span(d, Len(t), start, end, label, "expand")
      alt == try_alignment_strategies(d, t, start, end, label)
  IN IF first = Raised THEN [outcome |-> "raised", rung |-> 0, out |-> Raised]
     ELSE IF first # None THEN [outcome |-> "perfect", rung |-> 0, out |-> first]
     ELSE IF alt.out = Raised
       THEN [outcome |-> "raised", rung |-> alt.rung, out |-> Raised]
     ELSE IF alt.out # None
       THEN [outcome |-> "recovered", rung |-> alt.rung, out |-> alt.out]
     ELSE [outcome |-> "dropped", rung |-> 0, out |-> None]

----------------------------------------------------------------------------
(* State *)

NoCall ==
  [op |-> "none", start |-> 0, end |-> 0, label |-> "x", rung |-> 0,
   out |-> None, reason |-> Reason("none")]

ZeroStats ==
  [docs |-> 0, total_ents |-> 0, perfect_alignments |-> 0,
   recovered_ents |-> 0, dropped_ents |-> 0, overlapping_ents |-> 0]

\* the offsets of the scenarios reach down to -5
RawRange(t) ==
  IF t = ScenarioText THEN (0 - 5)..(Len(t) + Margin)
  ELSE (0 - Margin)..(Len(t) + Margin)

\* the raw spans of the scenarios of the design document
ScenarioRaws ==
  {<<4, 9, "nomen">>, <<3, 9, "nomen">>, <<0, 9, "nomen">>,
   <<0 - 5, 3, "x">>, <<10, 10, "x">>}

\* the annotations a record of the input file may hold for text t
RawSpans(t, margin) ==
  IF t = ScenarioText THEN ScenarioRaws
  ELSE ((0 - margin)..(Len(t) + margin)) \X ((0 - margin)..(Len(t) + margin))
         \X {"nomen"}

NoLimits == [lines |-> 0, anns |-> 0, len |-> 0, margin |-> 0]

\* the input files of the model
Files ==
  {[lines |-> MaxLines, anns |-> MaxAnn, len |-> MaxShortLen, margin |-> ShortMargin],
   [lines |-> 1, anns |-> LongAnn, len |-> Len(ScenarioText), margin |-> LongMargin]}

\* the records a file may hold
Records(lim) == {d \in Documents : Len(d.text) <= lim.len}

\* the conversion driver is not running
DriverIdle ==
  /\ limits = NoLimits
  /\ pc = "idle" /\ line = 0 /\ nAnn = 0 /\ ents = <<>> /\ kept = <<>>
  /\ stats = ZeroStats /\ offered = 0

driverVars == <<limits, pc, line, nAnn, ents, kept, stats, offered>>

\* validate_annotations.py is not running
MainIdle ==
  [pc |-> "idle", lines |-> 0, anns |-> 0, line_num |-> 0, ann_index |-> 0,
   json |-> "none", has_id |-> FALSE, transcription |-> MissingTranscription,
   annotations |-> "missing", annotation |-> [kind |-> "none"],
   records |-> <<>>,
   results |-> NoReport, status |-> 0]

\* diagnose_alignment_issues is not running
ZeroDiagStats ==
  [total_records |-> 0, total_entities |-> 0, perfect_alignments |-> 0,
   failed_alignments |-> 0, expand_mode_fixes |-> 0, contract_mode_fixes |-> 0,
   shift_plus_one_fixes |-> 0, shift_minus_one_fixes |-> 0]

DiagIdle ==
  [pc |-> "idle", lines |-> 0, anns |-> 0, line_num |-> 0, ann_index |-> 0,
   stats |-> ZeroDiagStats, failures |-> <<>>,
   successes_by_label |-> [l \in Labels |-> 0],
   failures_by_label |-> [l \in Labels |-> 0]]

ToolsIdle == validator = NewValidator /\ main = MainIdle /\ diag = DiagIdle

toolVars == <<validator, main, diag>>

\* the state of the converter, the validator and the diagnostics
alignmentVars ==
  <<text, doc, call, limits, pc, line, nAnn, ents, kept, stats, offered,
    input, stdout, validator, main, diag>>

\* download_edh_inscription has not been called
EdhIdle == [pc |-> "idle"]

\* latinepi.parser has not been imported
LoaderIdle == [pc |-> "idle"]

\* annotate_batch has not been called
GeminiIdle == [pc |-> "idle"]

OthersIdle == edh = EdhIdle /\ loader = LoaderIdle /\ gemini = GeminiIdle

otherVars == <<edh, loader, gemini>>

----------------------------------------------------------------------------
(* SpecAlign: the resolver, its rungs and the classifier applied to one    *)
(* document and one raw span                                               *)

InitAlign ==
  /\ \E d \in Documents : text = d.text /\ doc = d.doc
  /\ call = NoCall
  /\ DriverIdle
  /\ input = <<>> /\ stdout = <<>>
  /\ ToolsIdle
  /\ OthersIdle

\* span = try_alignment_strategies(doc, text, start, end, label)
Resolve(start, end, label) ==
  /\ call.op = "none"
  /\ LET r == try_alignment_strategies(doc, text, start, end, label)
     IN call' = [op |-> "resolve", start |-> start, end |-> end, label |-> label,
                 rung |-> r.rung, out |-> r.out, reason |-> Reason("none")]
  /\ UNCHANGED <<text, doc>>
  /\ UNCHANGED toolVars
  /\ UNCHANGED driverVars
  /\ UNCHANGED <<input, stdout>>
  /\ UNCHANGED toolVars
  /\ UNCHANGED otherVars

\* one rung of the ladder on its own
ApplyRung(k, start, end, label) ==
  /\ call.op = "none"
  /\ call' = [op |-> "rung", start |-> start, end |-> end, label |-> label,
              rung |-> k, out |-> Rung(k, doc, text, start, end, label),
              reason |-> Reason("none")]
  /\ UNCHANGED <<text, doc>>
  /\ UNCHANGED toolVars
  /\ UNCHANGED driverVars
  /\ UNCHANGED <<input, stdout>>
  /\ UNCHANGED toolVars
  /\ UNCHANGED otherVars

\* diagnose_failure_reason(doc, text, start, end, expected_text)
Classify(start, end) ==
  /\ call.op = "none"
  /\ call' = [op |-> "classify", start |-> start, end |-> end, label |-> "x",
              rung |-> 0, out |-> None,
              reason |-> diagnose_failure_reason(doc, text, start, end,
                                                 ExpectedText(text, start, end))]
  /\ UNCHANGED <<text, doc>>
  /\ UNCHANGED toolVars
  /\ UNCHANGED driverVars
  /\ UNCHANGED <<input, stdout>>
  /\ UNCHANGED toolVars
  /\ UNCHANGED otherVars

\* the loop body of diagnose_alignment_issues for one annotation
DiagnoseEntity(start, end, label) ==
  /\ call.op = "none"
  /\ LET r == diagnose_entity(doc, text, start, end, label)
     IN call' = [op |-> "diagnose", start |-> start, end |-> end, label |-> label,
                 rung |-> 0, out |-> r.out, reason |-> r.reason]
  /\ UNCHANGED <<text, doc>>
  /\ UNCHANGED toolVars
  /\ UNCHANGED driverVars
  /\ UNCHANGED <<input, stdout>>
  /\ UNCHANGED toolVars
  /\ UNCHANGED otherVars

\* the loop body of create_spacy_file_robust for one annotation, without
\* the counters
AlignOne(start, end, label) ==
  /\ call.op = "none"
  /\ \E r \in {align_entity(doc, text, start, end, label)} :
       call' = [op |-> r.outcome, start |-> start, end |-> end, label |-> label,
                rung |-> r.rung, out |-> r.out, reason |-> Reason("none")]
  /\ UNCHANGED <<text, doc>>
  /\ UNCHANGED toolVars
  /\ UNCHANGED driverVars
  /\ UNCHANGED <<input, stdout>>
  /\ UNCHANGED toolVars
  /\ UNCHANGED otherVars

\* one call per behaviour: the functions are pure
NextAlign ==
  /\ call.op = "none"
  /\ \/ \E start \in RawRange(text), end \in RawRange(text), label \in Labels :
          Resolve(start, end, label)
     \/ \E k \in 1..6, start \in RawRange(text), end \in RawRange(text) :
          ApplyRung(k, start, end, "nomen")
     \/ \E start \in RawRange(text), end \in RawRange(text) : Classify(start, end)
     \/ \E start \in RawRange(text), end \in RawRange(text) :
          DiagnoseEntity(start, end, "nomen")
     \/ \E start \in RawRange(text), end \in RawRange(text) :
          AlignOne(start, end, "nomen")

SpecAlign == InitAlign /\ [][NextAlign]_vars

----------------------------------------------------------------------------
(* Spec: create_spacy_file_robust over the lines of an input file *)

Init ==
  /\ text = <<>> /\ doc = <<>>
  /\ call = NoCall
  /\ limits \in Files
  /\ pc = "open" /\ line = 0 /\ nAnn = 0 /\ ents = <<>> /\ kept = <<>>
  /\ stats = ZeroStats /\ offered = 0
  /\ input = <<>> /\ stdout = <<>>
  /\ ToolsIdle
  /\ OthersIdle

\* json.loads raises JSONDecodeError: the warning with the line number is
\* printed, continue
SkipInvalidJson ==
  /\ pc = "open" /\ line < limits.lines
  /\ line' = line + 1
  /\ UNCHANGED <<text, doc, call, limits, pc, nAnn, ents, kept, stats, offered>>
  /\ input' = Append(input, "invalid")
  /\ stdout' = Append(stdout, line + 1)
  /\ UNCHANGED toolVars
  /\ UNCHANGED otherVars

\* the record has no (or an empty) transcription: continue (no document
\* is made; text and doc stay those of the last document)
SkipNoText ==
  /\ pc = "open" /\ line < limits.lines
  /\ line' = line + 1
  /\ UNCHANGED <<text, doc, call, limits, pc, nAnn, ents, kept, stats, offered>>
  /\ input' = Append(input, "object")
  /\ UNCHANGED stdout
  /\ UNCHANGED toolVars
  /\ UNCHANGED otherVars

\* the document is made, but the annotations are no list: continue
SkipNoList(d) ==
  /\ pc = "open" /\ line < limits.lines
  /\ line' = line + 1 /\ text' = d.text /\ doc' = d.doc
  /\ ents' = <<>> /\ kept' = <<>>
  /\ UNCHANGED <<call, limits, pc, nAnn, stats, offered>>
  /\ input' = Append(input, "object")
  /\ UNCHANGED stdout
  /\ UNCHANGED toolVars
  /\ UNCHANGED otherVars

\* a record with a text and a list of annotations: the loop starts
OpenRecord(d) ==
  /\ pc = "open" /\ line < limits.lines
  /\ line' = line + 1 /\ text' = d.text /\ doc' = d.doc
  /\ ents' = <<>> /\ kept' = <<>> /\ nAnn' = 0 /\ pc' = "record"
  /\ UNCHANGED <<call, limits, stats, offered>>
  /\ input' = Append(input, "object")
  /\ UNCHANGED stdout
  /\ UNCHANGED toolVars
  /\ UNCHANGED otherVars

\* an annotation that is no three-element list: continue
SkipMalformedEntity ==
  /\ pc = "record" /\ nAnn < limits.anns
  /\ nAnn' = nAnn + 1
  /\ UNCHANGED <<text, doc, call, limits, pc, line, ents, kept, stats, offered>>
  /\ UNCHANGED <<input, stdout>>
  /\ UNCHANGED toolVars
  /\ UNCHANGED otherVars

\* a three-element annotation
AlignEntity(start, end, label) ==
  /\ pc = "record" /\ nAnn < limits.anns
  /\ nAnn' = nAnn + 1
  /\ offered' = offered + 1
  /\ \E r \in {align_entity(doc, text, start, end, label)} :
        /\ pc' = IF r.outcome = "raised" THEN "crashed" ELSE pc
        /\ ents' = IF IsSpan(r.out) THEN Append(ents, r.out) ELSE ents
        /\ stats' =
             CASE r.outcome = "perfect" ->
                    [stats EXCEPT !.perfect_alignments = @ + 1]
               [] r.outcome = "recovered" ->
                    [stats EXCEPT !.recovered_ents = @ + 1]
               [] r.outcome = "dropped" ->
                    [stats EXCEPT !.dropped_ents = @ + 1]
               [] OTHER -> stats
  /\ UNCHANGED <<text, doc, call, limits, line, kept>>
  /\ UNCHANGED <<input, stdout>>
  /\ UNCHANGED toolVars
  /\ UNCHANGED otherVars

\* (mutant) the removed candidates not counted in overlapping_ents
CloseRecordOverlapUncounted ==
  /\ pc = "record"
  /\ kept' = filter_spans(ents)
  /\ stats' = [stats EXCEPT !.total_ents = @ + Len(filter_spans(ents)),
                            !.docs = @ + 1]
  /\ pc' = "open"
  /\ UNCHANGED <<text, doc, call, limits, line, nAnn, ents, offered>>
  /\ UNCHANGED <<input, stdout>>
  /\ UNCHANGED toolVars
  /\ UNCHANGED otherVars

\* the annotations are exhausted: overlap resolution and the statistics
CloseRecord ==
  /\ pc = "record"
  /\ LET filtered_ents == filter_spans(ents)
     IN /\ kept' = filtered_ents
        /\ stats' = [stats EXCEPT
                       !.overlapping_ents = @ + (Len(ents) - Len(filtered_ents)),
                       !.total_ents = @ + Len(filtered_ents),
                       !.docs = @ + 1]
  /\ pc' = "open"
  /\ UNCHANGED <<text, doc, call, limits, line, nAnn, ents, offered>>
  /\ UNCHANGED <<input, stdout>>
  /\ UNCHANGED toolVars
  /\ UNCHANGED otherVars

\* the file is exhausted: db.to_disk and return stats
Finish ==
  /\ pc = "open"
  /\ pc' = "done"
  /\ UNCHANGED <<text, doc, call, limits, line, nAnn, ents, kept, stats, offered>>
  /\ UNCHANGED <<input, stdout>>
  /\ UNCHANGED toolVars
  /\ UNCHANGED otherVars

Next ==
  \/ SkipInvalidJson
  \/ SkipNoText
  \/ pc = "open" /\ \E d \in Records(limits) : SkipNoList(d)
  \/ pc = "open" /\ \E d \in Records(limits) : OpenRecord(d)
  \/ SkipMalformedEntity
  \/ pc = "record" /\ \E raw \in RawSpans(text, limits.margin) :
        AlignEntity(raw[1], raw[2], raw[3])
  \/ CloseRecord
  \/ Finish

Spec == Init /\ [][Next]_vars

----------------------------------------------------------------------------
(* SpecValidate: validate_annotations.py over the lines of an input file *)

ValTexts == {<<>>, <<"a", " ">>}

Transcriptions ==
  {MissingTranscription, NullTranscription}
  \cup {StrTranscription(t) : t \in ValTexts}

\* the annotations field: no such key, a false value that is no list
\* (null), a true value that is no list (an object), [] or a longer list
AnnotationFields == {"missing", "falsy", "truthy", "empty_list", "list"}

\* the elements an annotations list may hold
Annotations(tr) ==
  {[kind |-> k, start |-> 0, end |-> 0, label |-> "x"] :
     k \in {"malformed", "badints", "badlabel"}}
  \cup {[kind |-> "typed", start |-> a, end |-> b, label |-> l] :
          a \in (0 - ValMargin)..(Len(tr.chars) + ValMargin),
          b \in (0 - ValMargin)..(Len(tr.chars) + ValMargin),
          l \in Labels}

\* the elements of the long annotation list: an entity of either label, a
\* blank span and a span that ends after the text
LongListAnnotations ==
  {[kind |-> "typed", start |-> 0, end |-> 1, label |-> "nomen"],
   [kind |-> "typed", start |-> 0, end |-> 1, label |-> "x"],
   [kind |-> "typed", start |-> 1, end |-> 2, label |-> "nomen"],
   [kind |-> "typed", start |-> 0, end |-> 3, label |-> "nomen"]}

\* the elements offered to the record being validated
AnnotationChoices(m) ==
  IF m.anns > MaxValAnn THEN LongListAnnotations
  ELSE Annotations(m.transcription)

\* the input files of the model: several lines of one annotation, one line
\* of a few annotations of any kind, one line of a long annotation list
ValFiles ==
  {[lines |-> MaxValLines, anns |-> 1], [lines |-> 1, anns |-> MaxValAnn],
   [lines |-> 1, anns |-> MaxLongList]}

convertVars == <<text, doc, call, limits, pc, line, nAnn, ents, kept, stats, offered>>

\* main() after the argument checks: validator = AnnotationValidator(),
\* validate_file opens the file
InitValidate ==
  /\ text = <<>> /\ doc = <<>> /\ call = NoCall
  /\ DriverIdle
  /\ input = <<>> /\ stdout = <<>>
  /\ validator = NewValidator
  /\ \E f \in ValFiles :
       main = [MainIdle EXCEPT !.pc = "lines", !.lines = f.lines,
                               !.anns = f.anns]
  /\ diag = DiagIdle
  /\ OthersIdle

\* (mutant) the invalid line recorded as a warning
VInvalidJsonAsWarning ==
  /\ main.pc = "lines" /\ main.line_num < main.lines
  /\ validator' = AddWarning(validator,
                             Entry(main.line_num + 1, 0 - 1, "invalid_json"))
  /\ main' = [main EXCEPT !.line_num = @ + 1, !.json = "invalid"]
  /\ input' = Append(input, "invalid")
  /\ UNCHANGED <<stdout, diag>>
  /\ UNCHANGED convertVars
  /\ UNCHANGED otherVars

\* json.loads raises JSONDecodeError: the line goes into the error ledger
VInvalidJson ==
  /\ main.pc = "lines" /\ main.line_num < main.lines
  /\ validator' = AddError(validator, Entry(main.line_num + 1, 0 - 1, "invalid_json"))
  /\ main' = [main EXCEPT !.line_num = @ + 1, !.json = "invalid"]
  /\ input' = Append(input, "invalid")
  /\ UNCHANGED <<stdout, diag>>
  /\ UNCHANGED convertVars
  /\ UNCHANGED otherVars

\* the line holds a JSON value that is no object.  'id' not in record
\* raises TypeError on a number, null or a boolean; an array or a string
\* has no key, and _compute_statistics will call its get
VNotObject(kind) ==
  /\ main.pc = "lines" /\ main.line_num < main.lines
  /\ validator' =
       IF kind = "number" THEN validator
       ELSE AddError(AddWarning(validator,
                                Entry(main.line_num + 1, 0 - 1, "missing_id")),
                     Entry(main.line_num + 1, 0 - 1, "missing_transcription"))
  /\ main' = [main EXCEPT
                !.line_num = @ + 1, !.json = kind,
                !.records = Append(@, Summary(FALSE, FALSE, FALSE)),
                !.pc = IF kind = "number" THEN "raised" ELSE @]
  /\ input' = Append(input, kind)
  /\ UNCHANGED <<stdout, diag>>
  /\ UNCHANGED convertVars
  /\ UNCHANGED otherVars

\* _validate_record(record, line_num) up to its loop
VRecord(has_id, tr, annotations) ==
  /\ main.pc = "lines" /\ main.line_num < main.lines
  /\ LET line_num == main.line_num + 1
         v1 == IF has_id THEN validator
               ELSE AddWarning(validator, Entry(line_num, 0 - 1, "missing_id"))
         annotated == annotations \in {"truthy", "list"}
     IN /\ validator' =
             IF tr.kind = "missing"
               THEN AddError(v1, Entry(line_num, 0 - 1, "missing_transcription"))
             ELSE IF annotations = "missing"
               THEN AddError(v1, Entry(line_num, 0 - 1, "missing_annotations"))
             ELSE IF annotations \in {"falsy", "truthy"}
               THEN AddError(v1, Entry(line_num, 0 - 1, "annotations_not_list"))
             ELSE v1
        /\ main' = [main EXCEPT
                      !.line_num = line_num, !.ann_index = 0,
                      !.json = "object", !.has_id = has_id,
                      !.transcription = tr, !.annotations = annotations,
                      !.annotation = [kind |-> "none"],
                      !.records =
                         Append(@, Summary(TRUE, annotated,
                                           /\ tr.kind = "str"
                                           /\ annotations \in {"empty_list", "list"})),
                      !.pc = IF tr.kind # "missing" /\ annotations = "list"
                               THEN "record" ELSE @]
  /\ input' = Append(input, "object")
  /\ UNCHANGED <<stdout, diag>>
  /\ UNCHANGED convertVars
  /\ UNCHANGED otherVars

\* one turn of the loop of _validate_record: record['id'] raises KeyError
\* when the record has no id, else _validate_annotation runs
VAnnotation(annotation) ==
  /\ main.pc = "record" /\ main.ann_index < main.anns
  /\ \E r \in {IF main.has_id
                 THEN validate_annotation(validator, annotation,
                                          main.transcription, main.line_num,
                                          main.ann_index)
               ELSE [raised |-> TRUE, v |-> validator]} :
       /\ validator' = r.v
       /\ main' = [main EXCEPT
                     !.ann_index = @ + 1,
                     !.annotation = IF main.has_id THEN annotation ELSE @,
                     !.records[Len(main.records)].printable =
                        @ /\ (\/ main.ann_index >= MaxSampleEntities
                              \/ annotation.kind = "typed"),
                     !.pc = IF r.raised THEN "raised" ELSE @]
  /\ UNCHANGED <<input, stdout, diag>>
  /\ UNCHANGED convertVars
  /\ UNCHANGED otherVars

\* the annotations of the record are exhausted
VEndRecord ==
  /\ main.pc = "record" /\ main.ann_index >= 1
  /\ main' = [main EXCEPT !.pc = "lines"]
  /\ UNCHANGED <<input, stdout, validator, diag>>
  /\ UNCHANGED convertVars
  /\ UNCHANGED otherVars

\* the file is exhausted: _compute_statistics, _print_report, return
VEndFile ==
  /\ main.pc = "lines"
  /\ IF StatsRaise(main.records)
       THEN /\ main' = [main EXCEPT !.pc = "raised"]
            /\ UNCHANGED validator
     ELSE /\ validator' = compute_statistics(validator, main.records)
          /\ main' = IF ReportRaises(main.records)
                       THEN [main EXCEPT !.pc = "raised"]
                     ELSE [main EXCEPT
                             !.pc = "returned",
                             !.results = Report(validator, main.records)]
  /\ UNCHANGED <<input, stdout, diag>>
  /\ UNCHANGED convertVars
  /\ UNCHANGED otherVars

\* main: sys.exit(1) if results['total_errors'] > 0 else sys.exit(0); an
\* exception that left validate_file ends the interpreter with status 1
VExit ==
  /\ main.pc \in {"returned", "raised"}
  /\ main' = [main EXCEPT
                !.pc = IF main.pc = "raised" THEN "aborted" ELSE "exited",
                !.status = IF main.pc = "raised" THEN 1
                           ELSE IF main.results.total_errors > 0 THEN 1
                           ELSE 0]
  /\ UNCHANGED <<input, stdout, validator, diag>>
  /\ UNCHANGED convertVars
  /\ UNCHANGED otherVars

NextValidate ==
  \/ VInvalidJson
  \/ main.pc = "lines" /\ \E kind \in {"number", "array"} : VNotObject(kind)
  \/ main.pc = "lines" /\ \E has_id \in BOOLEAN, tr \in Transcriptions,
                             annotations \in AnnotationFields :
        VRecord(has_id, tr, annotations)
  \/ main.pc = "record" /\ \E annotation \in AnnotationChoices(main) :
        VAnnotation(annotation)
  \/ VEndRecord
  \/ VEndFile
  \/ VExit

SpecValidate == InitValidate /\ [][NextValidate]_vars

----------------------------------------------------------------------------
(* SpecDiagnose: diagnose_alignment_issues over the lines of an input file *)

\* the input files of the model: short records of at most one annotation,
\* offsets from -1 to len(text) + 1
DiagFiles ==
  {[lines |-> MaxLines, anns |-> 1, len |-> MaxShortLen, margin |-> 1]}

InitDiagnose ==
  /\ text = <<>> /\ doc = <<>> /\ call = NoCall
  /\ DriverIdle
  /\ input = <<>> /\ stdout = <<>>
  /\ validator = NewValidator /\ main = MainIdle
  /\ \E f \in DiagFiles :
       diag = [DiagIdle EXCEPT !.pc = "open", !.lines = f.lines,
                               !.anns = f.anns]
  /\ OthersIdle

\* json.loads raises JSONDecodeError: the warning with the line number is
\* printed, continue
DInvalidJson ==
  /\ diag.pc = "open" /\ diag.line_num < diag.lines
  /\ diag' = [diag EXCEPT !.line_num = @ + 1]
  /\ input' = Append(input, "invalid")
  /\ stdout' = Append(stdout, diag.line_num + 1)
  /\ UNCHANGED <<validator, main>>
  /\ UNCHANGED convertVars
  /\ UNCHANGED otherVars

\* the record has no (or an empty) transcription: continue
DSkipNoText ==
  /\ diag.pc = "open" /\ diag.line_num < diag.lines
  /\ diag' = [diag EXCEPT !.line_num = @ + 1, !.stats.total_records = @ + 1]
  /\ input' = Append(input, "object")
  /\ UNCHANGED <<stdout, validator, main>>
  /\ UNCHANGED convertVars
  /\ UNCHANGED otherVars

\* the annotations are no list: continue, before the document is made
DSkipNoList(d) ==
  /\ diag.pc = "open" /\ diag.line_num < diag.lines
  /\ diag' = [diag EXCEPT !.line_num = @ + 1, !.stats.total_records = @ + 1]
  /\ text' = d.text
  /\ input' = Append(input, "object")
  /\ UNCHANGED <<stdout, validator, main>>
  /\ UNCHANGED <<doc, call, limits, pc, line, nAnn, ents, kept, stats, offered>>
  /\ UNCHANGED otherVars

\* a record with a text and a list of annotations: the loop starts
DOpenRecord(d) ==
  /\ diag.pc = "open" /\ diag.line_num < diag.lines
  /\ diag' = [diag EXCEPT !.line_num = @ + 1, !.stats.total_records = @ + 1,
                          !.ann_index = 0, !.pc = "record"]
  /\ text' = d.text /\ doc' = d.doc
  /\ input' = Append(input, "object")
  /\ UNCHANGED <<stdout, validator, main>>
  /\ UNCHANGED <<call, limits, pc, line, nAnn, ents, kept, stats, offered>>
  /\ UNCHANGED otherVars

\* an annotation that is no three-element list: continue
DSkipMalformedEntity ==
  /\ diag.pc = "record" /\ diag.ann_index < diag.anns
  /\ diag' = [diag EXCEPT !.ann_index = @ + 1]
  /\ UNCHANGED <<input, stdout, validator, main>>
  /\ UNCHANGED convertVars
  /\ UNCHANGED otherVars

\* a three-element annotation: the five methods, then the classifier
DEntity(start, end, label) ==
  /\ diag.pc = "record" /\ diag.ann_index < diag.anns
  /\ \E r \in {diagnose_entity(doc, text, start, end, label)} :
       diag' =
         IF r.out = Raised
           THEN [diag EXCEPT !.ann_index = @ + 1,
                             !.stats.total_entities = @ + 1,
                             !.pc = "crashed"]
         ELSE IF r.method = "failed"
           THEN [diag EXCEPT
                   !.ann_index = @ + 1,
                   !.stats.total_entities = @ + 1,
                   !.stats.failed_alignments = @ + 1,
                   !.failures_by_label[label] = @ + 1,
                   !.failures = Append(@, [start |-> start, end |-> end,
                                           label |-> label,
                                           failure_reason |-> r.reason])]
         ELSE [diag EXCEPT
                 !.ann_index = @ + 1,
                 !.stats.total_entities = @ + 1,
                 !.stats.perfect_alignments =
                    IF r.method = "perfect_expand" THEN @ + 1 ELSE @,
                 !.stats.contract_mode_fixes =
                    IF r.method = "contract" THEN @ + 1 ELSE @,
                 !.stats.shift_plus_one_fixes =
                    IF r.method = "shift_plus_one" THEN @ + 1 ELSE @,
                 !.stats.shift_minus_one_fixes =
                    IF r.method = "shift_minus_one" THEN @ + 1 ELSE @,
                 !.successes_by_label[label] = @ + 1]
  /\ UNCHANGED <<input, stdout, validator, main>>
  /\ UNCHANGED convertVars
  /\ UNCHANGED otherVars

\* the annotations of the record are exhausted
DCloseRecord ==
  /\ diag.pc = "record"
  /\ diag' = [diag EXCEPT !.pc = "open"]
  /\ UNCHANGED <<input, stdout, validator, main>>
  /\ UNCHANGED convertVars
  /\ UNCHANGED otherVars

\* the file is exhausted: the results are printed and returned
DFinish ==
  /\ diag.pc = "open"
  /\ diag' = [diag EXCEPT !.pc = "done"]
  /\ UNCHANGED <<input, stdout, validator, main>>
  /\ UNCHANGED convertVars
  /\ UNCHANGED otherVars

\* the records and annotations of the file being diagnosed
DiagRecords == UNION {Records(f) : f \in DiagFiles}

DiagRawSpans(t) == UNION {RawSpans(t, f.margin) : f \in DiagFiles}

NextDiagnose ==
  \/ DInvalidJson
  \/ DSkipNoText
  \/ diag.pc = "open" /\ \E d \in DiagRecords : DSkipNoList(d)
  \/ diag.pc = "open" /\ \E d \in DiagRecords : DOpenRecord(d)
  \/ DSkipMalformedEntity
  \/ diag.pc = "record" /\ \E raw \in DiagRawSpans(text) :
        DEntity(raw[1], raw[2], raw[3])
  \/ DCloseRecord
  \/ DFinish

SpecDiagnose == InitDiagnose /\ [][NextDiagnose]_vars

----------------------------------------------------------------------------
(* SpecLines: the three programs that read the input file line by line *)

InitLines == Init \/ InitValidate \/ InitDiagnose

NextLines == Next \/ NextValidate \/ NextDiagnose

SpecLines == InitLines /\ [][NextLines]_vars

----------------------------------------------------------------------------
(* latinepi/edh_utils.py: download_edh_inscription                         *)
(*                                                                         *)
(* An inscription id is a sequence of characters.  The response of the     *)
(* EDH API is a timeout, a connection error, an HTTP error status, a body  *)
(* that is no JSON, or a JSON body: an object, of which the code looks at  *)
(* the truth of data.get('error') and of data.get('inscriptions'), or a    *)
(* value that is no object (a list).                                       *)

\* zfill(6)
IdWidth == 6

Upper(c) == IF c = "h" THEN "H" ELSE IF c = "d" THEN "D" ELSE c

IsDigit(c) == c \in {"0", "1", "7"}

\* inscription_id.upper().startswith('HD')
StartsWithHD(id) == Len(id) >= 2 /\ Upper(id[1]) = "H" /\ Upper(id[2]) = "D"

\* inscription_id.isdigit()
AllDigits(id) == id # <<>> /\ \A k \in 1..Len(id) : IsDigit(id[k])

\* inscription_id.zfill(6)
RECURSIVE ZFill(_)
ZFill(id) == IF Len(id) >= IdWidth THEN id ELSE ZFill(<<"0">> \o id)

\* the validation of the id: the id the request is made with, or the
\* ValueError
normalize_id(inscription_id) ==
  LET id == Strip(inscription_id)
  IN IF inscription_id = <<>> \/ id = <<>>
       THEN [ok |-> FALSE, id |-> <<>>]
     ELSE IF StartsWithHD(id) THEN [ok |-> TRUE, id |-> id]
     ELSE IF AllDigits(id) THEN [ok |-> TRUE, id |-> <<"H", "D">> \o ZFill(id)]
     ELSE [ok |-> FALSE, id |-> id]

\* out_path / f"{inscription_id}.json"
OutputFile(id) == id \o <<".", "j", "s", "o", "n">>

NoBody == [kind |-> "none", error |-> "absent", inscriptions |-> "absent"]

\* the JSON bodies of the model
Bodies ==
  {[kind |-> "dict", error |-> e, inscriptions |-> i] :
     e \in {"absent", "false", "true"}, i \in {"absent", "empty", "nonempty"}}
  \cup {[kind |-> "list", error |-> "absent", inscriptions |-> "absent"]}

\* isinstance(data, dict) and data.get('error')
ApiError(data) == data.kind = "dict" /\ data.error = "true"

\* (mutant) the check for an empty result left out
NoInscriptionsUnchecked(data) == FALSE

\* isinstance(data, dict) and not data.get('inscriptions')
NoInscriptions(data) == data.kind = "dict" /\ data.inscriptions # "nonempty"

\* what the try block around the request does: the exception it raises, or
\* the data it leaves.  response.json() raises json.JSONDecodeError
\* (ValueError) or, with requests 2.27 and later, a RequestException that
\* the earlier except clause turns into HTTPError.
Fetch(response, data) ==
  CASE response = "timeout" -> {"HTTPError"}
    [] response = "connection_error" -> {"HTTPError"}
    [] response = "http_error" -> {"HTTPError"}
    [] response = "invalid_json" -> {"ValueError", "HTTPError"}
    [] OTHER -> IF ApiError(data) \/ NoInscriptions(data) THEN {"ValueError"}
                ELSE {"none"}

EdhIds ==
  {<<>>, <<" ">>, <<"H", "D", "1">>, <<"h", "d", "1">>, <<"1">>,
   <<" ", "7", " ">>, <<"X", "1">>, <<"1", "a">>, <<"H", "D">>,
   <<"1", "0", "0", "0", "0", "0", "7">>}

Responses == {"timeout", "connection_error", "http_error", "invalid_json", "ok"}

\* SpecEdh: one call of download_edh_inscription(inscription_id, out_dir)
InitEdh ==
  /\ text = <<>> /\ doc = <<>> /\ call = NoCall
  /\ DriverIdle
  /\ input = <<>> /\ stdout = <<>>
  /\ ToolsIdle
  /\ \E id \in EdhIds :
       edh = [pc |-> "validate", arg |-> id, inscription_id |-> id,
              dir |-> FALSE, requests |-> 0, response |-> "none",
              data |-> NoBody, files |-> {}, raised |-> "none",
              returned |-> <<>>]
  /\ loader = LoaderIdle /\ gemini = GeminiIdle

\* the validation of the id
EdhValidate ==
  /\ edh.pc = "validate"
  /\ \E r \in {normalize_id(edh.inscription_id)} :
       edh' = IF r.ok THEN [edh EXCEPT !.pc = "mkdir", !.inscription_id = r.id]
              ELSE [edh EXCEPT !.pc = "raised", !.raised = "ValueError"]
  /\ UNCHANGED alignmentVars
  /\ UNCHANGED <<loader, gemini>>

\* out_path.mkdir(parents=True, exist_ok=True)
EdhMkdir(ok) ==
  /\ edh.pc = "mkdir"
  /\ edh' = IF ok THEN [edh EXCEPT !.pc = "request", !.dir = TRUE]
            ELSE [edh EXCEPT !.pc = "raised", !.raised = "OSError"]
  /\ UNCHANGED alignmentVars
  /\ UNCHANGED <<loader, gemini>>

\* the try block: requests.get, raise_for_status, response.json() and the
\* two checks of the body
EdhRequest(response, data) ==
  /\ edh.pc = "request"
  /\ \E e \in Fetch(response, data) :
       edh' = [edh EXCEPT
                 !.requests = @ + 1, !.response = response,
                 !.data = IF response = "ok" THEN data ELSE NoBody,
                 !.pc = IF e = "none" THEN "write" ELSE "raised",
                 !.raised = e]
  /\ UNCHANGED alignmentVars
  /\ UNCHANGED <<loader, gemini>>

\* open(output_file, 'w') and json.dump; an OSError may leave the file
\* behind
EdhWrite(ok, created) ==
  /\ edh.pc = "write"
  /\ edh' = IF ok
              THEN [edh EXCEPT !.pc = "returned",
                               !.files = @ \cup {OutputFile(edh.inscription_id)},
                               !.returned = OutputFile(edh.inscription_id)]
            ELSE [edh EXCEPT !.pc = "raised", !.raised = "OSError",
                             !.files = IF created
                                         THEN @ \cup {OutputFile(edh.inscription_id)}
                                       ELSE @]
  /\ UNCHANGED alignmentVars
  /\ UNCHANGED <<loader, gemini>>

NextEdh ==
  \/ EdhValidate
  \/ \E ok \in BOOLEAN : EdhMkdir(ok)
  \/ edh.pc = "request" /\ \E response \in Responses, data \in Bodies :
        EdhRequest(response, data)
  \/ \E ok \in BOOLEAN, created \in BOOLEAN : EdhWrite(ok, created)

SpecEdh == InitEdh /\ [][NextEdh]_vars

----------------------------------------------------------------------------
(* latinepi/parser.py: the global model cache, _load_ner_model and         *)
(* extract_entities                                                        *)
(*                                                                         *)
(* Every load builds new objects: a pipeline and a tokenizer carry the     *)
(* model name and the number of the load attempt that built them.          *)

\* the direct calls of _load_ner_model and the calls of extract_entities
\* of one process
MaxCalls == 3

NoneValue == [kind |-> "None", name |-> "", load |-> 0]

Pipeline(name, n) == [kind |-> "pipeline", name |-> name, load |-> n]

Tokenizer(name, n) == [kind |-> "tokenizer", name |-> name, load |-> n]

\* what the import of transformers and torch and the three constructors
\* do in one attempt
LoadOutcomes ==
  {"import_error", "tokenizer_error", "model_error", "pipeline_error", "ok"}

\* LATIN_BERT_PATH names a directory, or not
ModelNames == {"latin_bert_path", "dbmdz/bert-base-historic-multilingual-cased"}

\* (mutant) the cache never consulted
CachedNever(l) == FALSE

\* if _MODEL_LOADED
Cached(l) == l.MODEL_LOADED

\* _load_ner_model(): the globals after the call and the pair it returns
load_ner_model(l, outcome, model_name) ==
  LET called == [l EXCEPT !.calls = @ + 1]
      n == l.attempts + 1
      printed == IF model_name = "latin_bert_path" THEN <<"loading">>
                 ELSE <<"warning_generic", "warning_download">>
  IN IF Cached(l)
       THEN [called EXCEPT !.returned = <<l.NER_MODEL, l.NER_TOKENIZER>>]
     ELSE IF l.USE_STUB
       THEN [called EXCEPT !.MODEL_LOADED = TRUE,
                           !.returned = <<NoneValue, NoneValue>>]
     ELSE IF outcome = "import_error"
       THEN [called EXCEPT !.attempts = n, !.MODEL_LOADED = TRUE,
                           !.returned = <<NoneValue, NoneValue>>]
     ELSE IF outcome = "ok"
       THEN [called EXCEPT !.attempts = n, !.MODEL_LOADED = TRUE,
                           !.stderr = @ \o printed,
                           !.NER_MODEL = Pipeline(model_name, n),
                           !.NER_TOKENIZER = Tokenizer(model_name, n),
                           !.returned = <<Pipeline(model_name, n),
                                          Tokenizer(model_name, n)>>]
     ELSE [called EXCEPT !.attempts = n, !.MODEL_LOADED = TRUE,
                         !.stderr = @ \o printed \o <<outcome>>,
                         !.returned = <<NoneValue, NoneValue>>]

\* the module has been imported: _USE_STUB is read from the environment
Imported(use_stub) ==
  [pc |-> "imported", USE_STUB |-> use_stub, MODEL_LOADED |-> FALSE,
   NER_MODEL |-> NoneValue, NER_TOKENIZER |-> NoneValue,
   attempts |-> 0, calls |-> 0,
   returned |-> <<NoneValue, NoneValue>>, stderr |-> <<>>,
   extracted |-> "none", texts |-> 0]

InitLoader ==
  /\ text = <<>> /\ doc = <<>> /\ call = NoCall
  /\ DriverIdle
  /\ input = <<>> /\ stdout = <<>>
  /\ ToolsIdle
  /\ edh = EdhIdle
  /\ \E use_stub \in BOOLEAN : loader = Imported(use_stub)
  /\ gemini = GeminiIdle

\* a call of _load_ner_model()
LoadNerModel(outcome, model_name) ==
  /\ loader.pc = "imported" /\ loader.calls < MaxCalls
  /\ loader' = [load_ner_model(loader, outcome, model_name)
                  EXCEPT !.extracted = "none"]
  /\ UNCHANGED alignmentVars
  /\ UNCHANGED <<edh, gemini>>

\* a call of extract_entities(text, use_model)
ExtractEntities(use_model, outcome, model_name) ==
  /\ loader.pc = "imported" /\ loader.texts < MaxCalls
  /\ loader' =
       IF use_model /\ ~loader.USE_STUB
         THEN LET l == load_ner_model(loader, outcome, model_name)
              IN [l EXCEPT !.texts = @ + 1,
                           !.extracted = IF l.returned[1] # NoneValue
                                           THEN "model" ELSE "stub"]
       ELSE [loader EXCEPT !.texts = @ + 1, !.extracted = "stub"]
  /\ UNCHANGED alignmentVars
  /\ UNCHANGED <<edh, gemini>>

NextLoader ==
  \/ \E outcome \in LoadOutcomes, model_name \in ModelNames :
       LoadNerModel(outcome, model_name)
  \/ \E use_model \in BOOLEAN, outcome \in LoadOutcomes, model_name \in ModelNames :
       ExtractEntities(use_model, outcome, model_name)

SpecLoader == InitLoader /\ [][NextLoader]_vars

----------------------------------------------------------------------------
(* batch_annotate_with_gemini.py: GeminiAnnotator.annotate_batch           *)
(*                                                                         *)
(* A record of the run is the index of its inscription, whether            *)
(* annotate_single returned a result, and whether it carries the '_error'  *)
(* marker.  A file is the records of its whole lines; the checkpoint       *)
(* file, which _save_checkpoint rewrites in place, may end in a line that  *)
(* was cut when the writing process was stopped.                           *)

MaxInscriptions == 3
MaxSaveEvery == 2
MaxRuns == 3

NoFile == [exists |-> FALSE, records |-> <<>>, torn |-> FALSE]

WholeFile(records) == [exists |-> TRUE, records |-> records, torn |-> FALSE]

\* the result of annotate_single, or the fallback record
\* {**inscription, "annotations": [], "_error": True}
BatchRecord(i, annotated) ==
  [idx |-> i, annotated |-> annotated, error |-> ~annotated]

\* _save_final: the '_error' key removed from every record
StripMarkers(results) ==
  [k \in 1..Len(results) |-> [results[k] EXCEPT !.error = FALSE]]

\* successful = sum(1 for r in completed if "_error" not in r)
Successful(results) ==
  Cardinality({k \in 1..Len(results) : ~results[k].error})

\* the number of records in the checkpoint file
CheckpointCount(g) == IF g.temp.exists THEN Len(g.temp.records) ELSE 0

InitGemini ==
  /\ text = <<>> /\ doc = <<>> /\ call = NoCall
  /\ DriverIdle
  /\ input = <<>> /\ stdout = <<>>
  /\ ToolsIdle
  /\ edh = EdhIdle /\ loader = LoaderIdle
  /\ \E total \in 1..MaxInscriptions, save_every \in 1..MaxSaveEvery :
       gemini = [pc |-> "ready", total |-> total, save_every |-> save_every,
                 resume_from |-> 0, i |-> 0, completed |-> <<>>,
                 temp |-> NoFile, output |-> NoFile, runs |-> 0,
                 prescribed |-> TRUE, raised |-> "none"]

\* annotate_batch up to its loop: the checkpoint is read when resume_from
\* is positive and the file exists; json.loads raises on a cut line
StartBatch(resume_from) ==
  /\ gemini.pc \in {"ready", "interrupted", "crashed"}
  /\ gemini.runs < MaxRuns
  /\ LET resuming == resume_from > 0 /\ gemini.temp.exists
         started == [gemini EXCEPT
                       !.runs = @ + 1, !.resume_from = resume_from,
                       !.prescribed = @ /\ resume_from = CheckpointCount(gemini),
                       !.raised = "none"]
     IN gemini' =
          IF resuming /\ gemini.temp.torn
            THEN [started EXCEPT !.pc = "crashed", !.raised = "JSONDecodeError",
                                 !.completed = <<>>, !.i = 0]
          ELSE [started EXCEPT
                  !.pc = "loop", !.i = resume_from,
                  !.completed = IF resuming THEN gemini.temp.records ELSE <<>>]
  /\ UNCHANGED alignmentVars
  /\ UNCHANGED <<edh, loader>>

\* one turn of the loop: annotate_single, the result or the fallback
\* appended, the checkpoint saved every save_every inscriptions
AnnotateNext(annotated) ==
  /\ gemini.pc = "loop" /\ gemini.i < gemini.total
  /\ LET completed == Append(gemini.completed, BatchRecord(gemini.i, annotated))
     IN gemini' = [gemini EXCEPT
                     !.completed = completed, !.i = @ + 1,
                     !.temp = IF (gemini.i + 1) % gemini.save_every = 0
                                THEN WholeFile(completed) ELSE @]
  /\ UNCHANGED alignmentVars
  /\ UNCHANGED <<edh, loader>>

\* the process is stopped in annotate_single or in time.sleep
InterruptLoop ==
  /\ gemini.pc = "loop" /\ gemini.i < gemini.total
  /\ gemini' = [gemini EXCEPT !.pc = "interrupted", !.completed = <<>>, !.i = 0]
  /\ UNCHANGED alignmentVars
  /\ UNCHANGED <<edh, loader>>

\* the process is stopped inside _save_checkpoint: open(temp_file, 'w') has
\* truncated the file and the first whole lines of the new content have
\* reached it, followed or not by a part of the next line
InterruptCheckpoint(annotated, whole, torn) ==
  /\ gemini.pc = "loop" /\ gemini.i < gemini.total
  /\ (gemini.i + 1) % gemini.save_every = 0
  /\ LET completed == Append(gemini.completed, BatchRecord(gemini.i, annotated))
     IN /\ whole <= Len(completed)
        /\ torn => whole < Len(completed)
        /\ gemini' = [gemini EXCEPT
                        !.pc = "interrupted", !.completed = <<>>, !.i = 0,
                        !.temp = [exists |-> TRUE,
                                  records |-> SubSeq(completed, 1, whole),
                                  torn |-> torn]]
  /\ UNCHANGED alignmentVars
  /\ UNCHANGED <<edh, loader>>

\* _save_final and the statistics: the output written without the error
\* markers, the checkpoint removed; total_entities / successful raises
\* ZeroDivisionError when no annotation succeeded
FinalSave ==
  /\ gemini.pc = "loop" /\ gemini.i >= gemini.total
  /\ gemini' = [gemini EXCEPT
                  !.pc = "done",
                  !.output = WholeFile(StripMarkers(gemini.completed)),
                  !.temp = NoFile,
                  !.raised = IF Successful(gemini.completed) = 0
                               THEN "ZeroDivisionError" ELSE "none"]
  /\ UNCHANGED alignmentVars
  /\ UNCHANGED <<edh, loader>>

\* the process is stopped inside _save_final: a part of the output is
\* written and the checkpoint is still there
InterruptFinal(whole) ==
  /\ gemini.pc = "loop" /\ gemini.i >= gemini.total
  /\ whole <= Len(gemini.completed)
  /\ gemini' = [gemini EXCEPT
                  !.pc = "interrupted", !.completed = <<>>, !.i = 0,
                  !.output = WholeFile(SubSeq(StripMarkers(gemini.completed),
                                              1, whole))]
  /\ UNCHANGED alignmentVars
  /\ UNCHANGED <<edh, loader>>

NextGemini ==
  \/ \E resume_from \in 0..MaxInscriptions : StartBatch(resume_from)
  \/ \E annotated \in BOOLEAN : AnnotateNext(annotated)
  \/ InterruptLoop
  \/ \E annotated \in BOOLEAN, whole \in 0..MaxInscriptions, torn \in BOOLEAN :
       InterruptCheckpoint(annotated, whole, torn)
  \/ FinalSave
  \/ \E whole \in 0..MaxInscriptions : InterruptFinal(whole)

SpecGemini == InitGemini /\ [][NextGemini]_vars

----------------------------------------------------------------------------
(* Claims about the resolver and the classifier (SpecAlign) *)

IsTokenStartOffset(d, c) == \E k \in 0..(Len(d) - 1) : Tok(d, k).idx = c

IsTokenEndOffset(d, c) == \E k \in 0..(Len(d) - 1) : TokEnd(d, k) = c

Resolved == call.op = "resolve" /\ IsSpan(call.out)

\* C1: every span try_alignment_strategies returns starts at the start of a
\* token, ends at the end of a token and covers at least one token.
C1_BoundaryInvariant ==
  Resolved =>
    /\ IsTokenStartOffset(doc, call.out.start_char)
    /\ IsTokenEndOffset(doc, call.out.end_char)
    /\ call.out.end > call.out.start

\* C2: the ladder returns the span of the first rung, in the order Strict,
\* Expand, Whitespace-trim, Uniform shift, Independent shift, Contract, that
\* returns one (every earlier rung returned None), and returns None only
\* when all six rungs returned None.
C2_LadderOrder ==
  call.op = "resolve" =>
    /\ IsSpan(call.out) =>
         /\ call.rung \in 1..6
         /\ call.out = Rung(call.rung, doc, text, call.start, call.end, call.label)
         /\ \A j \in 1..(call.rung - 1) :
              Rung(j, doc, text, call.start, call.end, call.label) = None
    /\ call.out = None <=>
         \A j \in 1..6 : Rung(j, doc, text, call.start, call.end, call.label) = None

\* a later rung answered: the shifts by the same amount all failed and an
\* independent shift aligned the span
C2_Witness == Resolved /\ call.rung = 5

C4_StrictIdempotent ==
  /\ call.op \in {"resolve", "rung"} /\ call.rung = 1 /\ IsSpan(call.out) =>
       /\ IsTokenStartOffset(doc, call.start)
       /\ IsTokenEndOffset(doc, call.end)
       /\ call.out.start_char = call.start
       /\ call.out.end_char = call.end
       /\ try_alignment_strategies(doc, text, call.out.start_char,
                                   call.out.end_char, call.label)
            = [rung |-> 1, out |-> call.out]
  /\ call.op = "resolve" /\ text = ScenarioText /\ call.start = 4 /\ call.end = 9 =>
       /\ call.rung = 1
       /\ IsSpan(call.out)
       /\ call.out.start_char = 4 /\ call.out.end_char = 9

C4_Witness ==
  /\ call.op = "resolve" /\ text = ScenarioText
  /\ call.start = 4 /\ call.end = 9 /\ call.rung = 1

\* C5: a span the Contract rung returns lies inside the raw bounds and is
\* not empty: start <= span.start < span.end <= end.
C5_ContractSubset ==
  call.op \in {"resolve", "rung"} /\ call.rung = 6 /\ IsSpan(call.out) =>
    /\ call.start <= call.out.start_char
    /\ call.out.start_char < call.out.end_char
    /\ call.out.end_char <= call.end
    /\ call.out.start < call.out.end

\* Contract gave up text at both edges
C5_Witness ==
  /\ call.op = "rung" /\ call.rung = 6 /\ IsSpan(call.out)
  /\ call.start < call.out.start_char
  /\ call.out.end_char < call.end

ReasonNames ==
  {"out_of_bounds", "whitespace_only", "no_overlapping_tokens",
   "both_boundaries_mid_token", "start_mid_token", "end_mid_token",
   "starts_with_whitespace", "ends_with_whitespace", "unknown_reason"}

Reasons ==
  {Reason(n) : n \in ReasonNames}
  \cup {Mismatch(n, m) : n \in 0..Len(text), m \in 0..Len(text)}

\* C10: the classifier returns one reason of its enumeration for every
\* text, tokens and (start, end), and the diagnostics loop classifies
\* exactly the annotations that none of its alignment methods aligned.
C10_ClassifierTotal ==
  /\ call.op = "classify" => call.reason \in Reasons
  /\ call.op = "diagnose" =>
       /\ call.out = None <=> call.reason # Reason("none")
       /\ call.out = None => call.reason \in Reasons

\* an annotation that exhausted the alignment methods and was classified
C10_Witness ==
  call.op = "diagnose" /\ call.out = None /\ call.reason \in Reasons

\* the conditions of the reasons, in the order of the enumeration; a
\* boundary is mid-token when it lies strictly inside some token
InsideSomeToken(c) ==
  \E k \in 0..(Len(doc) - 1) : Tok(doc, k).idx < c /\ c < TokEnd(doc, k)

ReasonHolds(name, start, end) ==
  CASE name = "out_of_bounds" -> start < 0 \/ end > Len(text) \/ start >= end
    [] name = "whitespace_only" ->
         \A c \in start..(end - 1) : IsSpace(Ch(text, c))
    [] name = "no_overlapping_tokens" ->
         ~\E k \in 0..(Len(doc) - 1) :
             Tok(doc, k).idx < end /\ start < TokEnd(doc, k)
    [] name = "both_boundaries_mid_token" ->
         InsideSomeToken(start) /\ InsideSomeToken(end)
    [] name = "start_mid_token" -> InsideSomeToken(start)
    [] name = "end_mid_token" -> InsideSomeToken(end)
    [] name = "starts_with_whitespace" -> IsSpace(Ch(text, start))
    [] name = "ends_with_whitespace" -> IsSpace(Ch(text, end - 1))
    [] name = "tokenization_mismatch" ->
         WordCount(Slice(text, start, end))
           # Cardinality(OverlappingTokens(doc, start, end))
    [] name = "unknown_reason" -> TRUE

ReasonOrder ==
  <<"out_of_bounds", "whitespace_only", "no_overlapping_tokens",
    "both_boundaries_mid_token", "start_mid_token", "end_mid_token",
    "starts_with_whitespace", "ends_with_whitespace",
    "tokenization_mismatch", "unknown_reason">>

\* C11: the classifier returns the first reason of the enumeration whose
\* condition holds: the conditions of all reasons before the returned one
\* are false and the condition of the returned one is true.
C11_ClassifierPrecedence ==
  call.op = "classify" =>
    \E k \in 1..Len(ReasonOrder) :
      /\ call.reason.name = ReasonOrder[k]
      /\ ReasonHolds(ReasonOrder[k], call.start, call.end)
      /\ \A j \in 1..(k - 1) : ~ReasonHolds(ReasonOrder[j], call.start, call.end)

\* a reason late in the order is returned while a still later condition
\* holds too
C11_Witness ==
  /\ call.op = "classify"
  /\ call.reason.name = "end_mid_token"
  /\ ReasonHolds("starts_with_whitespace", call.start, call.end)

\* C12: on the scenario text the raw span (-5, 3, "x") is not aligned by
\* any strategy of the resolver: the resolver returns None for it, the
\* driver's loop body drops it, and the classifier calls it out_of_bounds.
C12_ScenarioC ==
  (text = ScenarioText /\ call.start = 0 - 5 /\ call.end = 3) =>
    /\ call.op = "resolve" => call.out = None
    /\ call.op \in {"perfect", "recovered", "dropped", "raised"} =>
         call.op = "dropped"
    /\ call.op = "classify" => call.reason = Reason("out_of_bounds")

\* C13: a zero-width raw span (start = end, as (10, 10, "x") on the
\* scenario text) never produces a span: every rung of the ladder returns
\* None for it, the driver's loop body drops it, and its reason is
\* whitespace_only or out_of_bounds.
C13_ZeroWidth ==
  call.start = call.end =>
    /\ call.op \in {"resolve", "rung"} => call.out = None
    /\ call.op \in {"perfect", "recovered", "dropped", "raised"} =>
         call.op = "dropped"
    /\ call.op = "classify" =>
         call.reason \in {Reason("whitespace_only"), Reason("out_of_bounds")}

ScenarioB ==
  /\ text = ScenarioText /\ call.op = "resolve"
  /\ call.start = 3 /\ call.end = 9 /\ call.label = "nomen"

\* C14 as claimed: raw span (3, 9, "nomen") is aligned by Expand to (2, 9).
C14_ScenarioBAsClaimed ==
  ScenarioB =>
    /\ call.rung = 2
    /\ call.out.start_char = 2 /\ call.out.end_char = 9

\* C14: on the scenario text raw span (3, 9, "nomen") fails Strict and is
\* aligned by Expand, the second rung, so Whitespace-trim is never tried;
\* Expand does not count the space before offset 4 as part of token M, and
\* the span it returns is GAIVS, (4, 9), labelled nomen.
C14_ScenarioB ==
  ScenarioB =>
    /\ Strategy1(doc, text, 3, 9, "nomen") = None
    /\ call.rung = 2
    /\ call.out = Strategy2(doc, text, 3, 9, "nomen")
    /\ call.out.start_char = 4 /\ call.out.end_char = 9
    /\ call.out.label = "nomen"

C14_Witness == ScenarioB /\ IsSpan(call.out)

C21_Step ==
  call'.op # "none" =>
    /\ text' = text /\ doc' = doc
    /\ IsSpan(call'.out) => call'.out.label = call'.label

\* C21: a span returned by the resolver, by one of its rungs or by the
\* driver's loop body carries the label it was called with, whatever
\* strategy produced it, and the call leaves the text and the tokens as
\* they were.
C21_LabelPreserved == [][C21_Step]_vars

\* a span with label x came back from the independent shifts
C21_Witness ==
  Resolved /\ call.rung = 5 /\ call.label = "x" /\ call.out.label = "x"

\* Expand on (start + d, end + d) for the deltas from the k-th on
RECURSIVE ExpandShiftedFrom(_, _, _, _, _, _)
ExpandShiftedFrom(d, t, start, end, label, k) ==
  IF k > Len(UniformShifts) THEN None
  ELSE LET span == char_span(d, Len(t), start + UniformShifts[k],
                             end + UniformShifts[k], label, "expand")
       IN IF span # None THEN span
          ELSE ExpandShiftedFrom(d, t, start, end, label, k + 1)

\* the attempts strategy 4 makes: every delta before which no attempt
\* succeeded
Strategy4Attempts(d, t, start, end, label) ==
  {k \in 1..Len(UniformShifts) :
     \A j \in 1..(k - 1) :
       ShiftedExpand(d, t, start, end, label,
                     UniformShifts[j], UniformShifts[j]) = None}

\* C23: strategy 4 returns the first success of Expand on (start + d,
\* end + d) for d = -1, +1, -2, +2 in that order, and the range of every
\* attempt is as wide as the raw span.
C23_UniformShift ==
  (call.op = "rung" /\ call.rung = 4) =>
    /\ call.out = ExpandShiftedFrom(doc, text, call.start, call.end,
                                    call.label, 1)
    /\ \A k \in Strategy4Attempts(doc, text, call.start, call.end, call.label) :
         Min(Len(text), call.end + UniformShifts[k])
           - Max(0, call.start + UniformShifts[k]) = call.end - call.start

\* the offset of the first character of text[start:end] that is no space
FirstNonSpace(t, start, end) ==
  CHOOSE i \in start..(end - 1) :
    ~IsSpace(t[i + 1]) /\ \A j \in start..(i - 1) : IsSpace(t[j + 1])

\* the offset after the last character of text[start:end] that is no space
AfterLastNonSpace(t, start, end) ==
  CHOOSE i \in (start + 1)..end :
    ~IsSpace(t[i]) /\ \A j \in (i + 1)..end : IsSpace(t[j])

Trimmable(t, start, end) ==
  /\ 0 <= start /\ start < end /\ end <= Len(t)
  /\ IsSpace(t[start + 1]) \/ IsSpace(t[end])
  /\ \E i \in (start + 1)..end : ~IsSpace(t[i])

C24_Case == call.op = "rung" /\ call.rung = 3

\* C24: strategy 3 is applied only to an in-bounds raw span whose text
\* begins or ends with whitespace and is not whitespace only; the trimmed
\* bounds lie past the leading and before the trailing whitespace run, so
\* start <= new_start < new_end <= end and the trimmed text neither begins
\* nor ends with whitespace; the result is Strict on the trimmed bounds
\* and, if that fails, Expand on them.
C24_WhitespaceTrim ==
  C24_Case =>
    IF Trimmable(text, call.start, call.end)
      THEN LET new_start == FirstNonSpace(text, call.start, call.end)
               new_end == AfterLastNonSpace(text, call.start, call.end)
               strict == char_span(doc, Len(text), new_start, new_end,
                                   call.label, "strict")
               expand == char_span(doc, Len(text), new_start, new_end,
                                   call.label, "expand")
           IN /\ new_start = TrimStart(text, call.start, call.end)
              /\ new_end = TrimEnd(text, call.start, call.end)
              /\ call.start <= new_start /\ new_start < new_end
              /\ new_end <= call.end
              /\ ~IsSpace(text[new_start + 1]) /\ ~IsSpace(text[new_end])
              /\ call.out = IF strict # None THEN strict ELSE expand
    ELSE call.out = None

\* a span with a trailing space was trimmed and aligned
C24_Witness ==
  /\ C24_Case /\ IsSpan(call.out)
  /\ IsSpace(text[call.end])
  /\ call.out.end_char < call.end
  /\ call.out.start_char = call.start

\* the driver handed the annotation to try_alignment_strategies
LadderCalled ==
  \/ call.op \in {"recovered", "dropped"}
  \/ call.op = "raised" /\ call.rung > 0

\* C28: the driver calls the ladder only after Expand on the raw bounds
\* returned no span; in every such call Strict and Expand on the raw
\* bounds fail again and so does Contract on the raw bounds, so every
\* recovered span comes from the whitespace trim, the uniform shift or the
\* independent shift.
C28_DeadRungs ==
  /\ LadderCalled =>
       /\ char_span(doc, Len(text), call.start, call.end, call.label, "expand")
            = None
       /\ Strategy1(doc, text, call.start, call.end, call.label) = None
       /\ Strategy2(doc, text, call.start, call.end, call.label) = None
       /\ Strategy6(doc, text, call.start, call.end, call.label) = None
       /\ call.rung \notin {1, 2, 6}
  /\ call.op = "recovered" =>
       /\ call.rung \in {3, 4, 5}
       /\ call.out = Rung(call.rung, doc, text, call.start, call.end, call.label)
  /\ call.op = "perfect" => ~LadderCalled /\ call.rung = 0

\* a span was recovered by the uniform shift
C28_Witness ==
  /\ call.op = "recovered" /\ call.rung = 4 /\ IsSpan(call.out)
  /\ call.start >= 0

\* the driver processed the annotation on a text with tokens
C29_Case ==
  call.op \in {"perfect", "recovered", "dropped", "raised"} /\ Len(doc) > 0

\* some shift pair leaves a non-empty clamped range
SomeShiftInRange(t, start, end) ==
  \E ds \in (0 - 2)..2, de \in (0 - 2)..2 :
    Max(0, start + ds) < Min(Len(t), end + de)

C29_DroppedOnlyIf ==
  (C29_Case /\ call.op = "dropped") =>
    Max(0, call.start - 2) >= Min(Len(text), call.end + 2)

C29_AlignedIf ==
  (C29_Case /\ SomeShiftInRange(text, call.start, call.end)) =>
    call.op \in {"perfect", "recovered"}

\* C29: on a text with tokens a raw span is dropped only if
\* max(0, start - 2) >= min(len(text), end + 2), and every raw span for
\* which some shift pair (ds, de) in {-2..2} x {-2..2} gives
\* max(0, start + ds) < min(len(text), end + de) is aligned.
C29_DroppedSpans == C29_DroppedOnlyIf /\ C29_AlignedIf

----------------------------------------------------------------------------
(* Claims about the conversion driver (Spec) *)

\* the overlap resolution of the last record has run: kept names the
\* retained candidates of ents
FilterDone == pc \in {"open", "done"}

TokensOf(sp) == sp.start..(sp.end - 1)

ShareToken(a, b) == TokensOf(a) \cap TokensOf(b) # {}

Candidates == 1..Len(ents)

Kept == {kept[k] : k \in 1..Len(kept)}

\* i ranks before j: more tokens, else the earlier start, else the earlier
\* place in the candidate list
RanksBefore(i, j) ==
  \/ SpanLen(ents[i]) > SpanLen(ents[j])
  \/ SpanLen(ents[i]) = SpanLen(ents[j]) /\ ents[i].start < ents[j].start
  \/ /\ SpanLen(ents[i]) = SpanLen(ents[j])
     /\ ents[i].start = ents[j].start
     /\ i < j

RECURSIVE Coverage(_)
Coverage(S) ==
  IF S = {} THEN 0
  ELSE LET i == CHOOSE x \in S : TRUE
       IN SpanLen(ents[i]) + Coverage(S \ {i})

NonOverlapping(S) ==
  \A i \in S : \A j \in S : i # j => ~ShareToken(ents[i], ents[j])

\* C6: no two spans of a document's final entities share a token.
C6_NoOverlap ==
  /\ Len(kept) = Cardinality(Kept)
  /\ Kept \subseteq Candidates
  /\ NonOverlapping(Kept)

\* overlap resolution removed a candidate and kept two
C6_Witness ==
  FilterDone /\ Len(kept) >= 2 /\ Len(ents) > Len(kept)

\* C7 as claimed: of two candidates that share a token the one covering
\* more tokens is retained, and on a tie the one earlier in the input.
C7_OverlapPolicyAsClaimed ==
  FilterDone =>
    \A i \in Candidates : \A j \in Candidates :
      i < j /\ ShareToken(ents[i], ents[j]) =>
        IF SpanLen(ents[j]) > SpanLen(ents[i])
          THEN j \in Kept /\ i \notin Kept
          ELSE i \in Kept /\ j \notin Kept

\* C7 amended: two candidates that share a token are never both retained;
\* a candidate covering a token is removed exactly when it shares a token
\* with a retained candidate that ranks before it (more tokens, else the
\* smaller start, else earlier in the input); of two overlapping candidates
\* alone the one ranking first is retained, so (0,9) is kept over (4,9).
C7_OverlapPolicy ==
  FilterDone =>
    /\ \A i \in Candidates : \A j \in Candidates :
         i # j /\ ShareToken(ents[i], ents[j]) => ~(i \in Kept /\ j \in Kept)
    /\ \A j \in Candidates :
         SpanLen(ents[j]) > 0 =>
           (j \notin Kept <=>
              \E k \in Kept : RanksBefore(k, j) /\ ShareToken(ents[k], ents[j]))
    /\ \A i \in Candidates : \A j \in Candidates :
         /\ Len(ents) = 2
         /\ ShareToken(ents[i], ents[j])
         /\ RanksBefore(i, j)
         => kept = <<i>>
    /\ /\ text = ScenarioText
       /\ Len(ents) = 2
       /\ ents[1].start_char = 0 /\ ents[1].end_char = 9
       /\ ents[2].start_char = 4 /\ ents[2].end_char = 9
       => kept = <<1>> /\ Len(ents) - Len(kept) = 1

\* a tie in token count between two overlapping candidates: the one that
\* starts earlier is kept although it came later in the input
C7_Witness ==
  /\ FilterDone /\ Len(ents) = 2
  /\ ShareToken(ents[1], ents[2])
  /\ SpanLen(ents[1]) = SpanLen(ents[2])
  /\ ents[2].start < ents[1].start
  /\ kept = <<2>>

C9_RecoveryAccounting ==
  stats.perfect_alignments + stats.recovered_ents + stats.dropped_ents = offered

\* C15: alignment failure is never fatal: whatever integers a three-element
\* annotation holds, the driver does not stop in the middle of a document;
\* an annotation that no strategy aligns is counted in dropped_ents and the
\* loop goes on.
C15_NeverFatal == pc # "crashed"

Aligned(st) == st.perfect_alignments + st.recovered_ents

C27_Step ==
  /\ pc' \in {"open", "done"} =>
       stats'.total_ents = Aligned(stats') - stats'.overlapping_ents
  /\ pc' = "record" =>
       stats'.total_ents + Len(ents') = Aligned(stats') - stats'.overlapping_ents
  /\ stats'.docs # stats.docs =>
       /\ pc = "record" /\ pc' = "open"
       /\ stats'.docs = stats.docs + 1
       /\ stats'.overlapping_ents
            = stats.overlapping_ents + (Len(ents) - Len(kept'))
       /\ stats'.total_ents = stats.total_ents + Len(kept')
       /\ Aligned(stats') = Aligned(stats)
       /\ stats'.dropped_ents = stats.dropped_ents
  /\ stats'.docs = stats.docs =>
       /\ stats'.total_ents = stats.total_ents
       /\ stats'.overlapping_ents = stats.overlapping_ents

\* C27: after every completed document total_ents = perfect_alignments +
\* recovered_ents - overlapping_ents; completing a document adds the
\* number of aligned candidates minus the number of spans kept to
\* overlapping_ents, the number kept to total_ents and one to docs, and
\* nothing else changes total_ents or overlapping_ents.
C27_Conservation == [][C27_Step]_vars

\* two documents were completed, and overlap resolution removed a
\* candidate
C27_Witness ==
  /\ pc = "open" /\ stats.docs = 2 /\ stats.overlapping_ents >= 1
  /\ stats.total_ents >= 1 /\ stats.recovered_ents >= 1

----------------------------------------------------------------------------
(* Claims about the validator (SpecValidate) *)

\* C16: the exit status of the validator is non-zero if and only if the
\* error ledger is not empty; warnings alone give exit status 0.
C16_Verdict ==
  main.pc \in {"exited", "aborted"} =>
    (main.status # 0 <=> Len(validator.errors) > 0)

\* the conditions on the offsets that a triple violates
Violated(a, t) ==
  {w \in {"negative_start", "end_exceeds_length", "start_not_before_end"} :
     \/ w = "negative_start" /\ a.start < 0
     \/ w = "end_exceeds_length" /\ a.end > Len(t)
     \/ w = "start_not_before_end" /\ a.start >= a.end}

IsWhitespaceSpan(a, t) ==
  /\ 0 <= a.start /\ a.start < a.end /\ a.end <= Len(t)
  /\ \A c \in a.start..(a.end - 1) : IsSpace(Ch(t, c))

\* the entries a step appended to a ledger
Appended(before, after) == SubSeq(after, Len(before) + 1, Len(after))

\* a step that examines a triple (int, int, string) of a record with an
\* id, a string transcription and a list of annotations
ExaminesTyped ==
  /\ main.pc = "record" /\ main'.ann_index = main.ann_index + 1
  /\ main.has_id /\ main.transcription.kind = "str"
  /\ main'.annotation.kind = "typed"

C17_Step ==
  ExaminesTyped =>
    LET a == main'.annotation
        t == main.transcription.chars
        new_errors == Appended(validator.errors, validator'.errors)
        new_warnings == Appended(validator.warnings, validator'.warnings)
        counted == validator'.entity_counts[a.label]
                     = validator.entity_counts[a.label] + 1
    IN /\ SubSeq(validator'.errors, 1, Len(validator.errors)) = validator.errors
       /\ SubSeq(validator'.warnings, 1, Len(validator.warnings))
            = validator.warnings
       /\ {new_errors[i].what : i \in 1..Len(new_errors)} = Violated(a, t)
       /\ Len(new_errors) = Cardinality(Violated(a, t))
       /\ \A i \in 1..Len(new_errors) :
            new_errors[i].line = main.line_num /\ new_errors[i].ann = main.ann_index
       /\ IF IsWhitespaceSpan(a, t)
            THEN /\ new_warnings
                      = <<Entry(main.line_num, main.ann_index, "whitespace_only")>>
                 /\ new_errors = <<>>
                 /\ counted
          ELSE new_warnings = <<>>
       /\ counted <=> Violated(a, t) = {}
       /\ \A l \in Labels \ {a.label} :
            validator'.entity_counts[l] = validator.entity_counts[l]

\* C17: for a triple (int, int, string) of a structurally valid record the
\* validator appends one error for each violated condition among
\* start < 0, end > len(text), start >= end; it appends a warning, and no
\* error, exactly when the span is in bounds and blank after stripping, and
\* the annotation is then still counted in entity_counts.
C17_AnnotationClassification == [][C17_Step]_vars

\* a whitespace-only annotation was examined: a warning, no error, counted
C17_Witness ==
  /\ main.pc = "record" /\ main.has_id /\ main.annotation.kind = "typed"
  /\ IsWhitespaceSpan(main.annotation, main.transcription.chars)
  /\ validator.errors = <<>>
  /\ validator.warnings
       = <<Entry(main.line_num, main.ann_index - 1, "whitespace_only")>>
  /\ validator.entity_counts[main.annotation.label] = 1

StructuralErrors ==
  {"missing_transcription", "missing_annotations", "annotations_not_list"}

\* C18: a record whose transcription is missing or empty, or whose
\* annotations are missing or no list, gets a structural error, and none
\* of its annotations is examined.
C18_StructuralRequirements ==
  (/\ main.json = "object"
   /\ \/ main.transcription.kind = "missing"
      \/ main.transcription = StrTranscription(<<>>)
      \/ main.annotations \in {"missing", "falsy", "truthy"}) =>
    /\ \E i \in 1..Len(validator.errors) :
         /\ validator.errors[i].line = main.line_num
         /\ validator.errors[i].what \in StructuralErrors
    /\ main.annotation.kind = "none"

\* C19: validate_file never raises: whatever the records hold, it runs to
\* completion and returns the report.
C19_NeverAborts == main.pc \notin {"raised", "aborted"}

----------------------------------------------------------------------------
(* Claims about the three line readers (SpecLines) *)

ReadsInvalidLine ==
  Len(input') = Len(input) + 1 /\ input'[Len(input')] = "invalid"

C20_Step ==
  ReadsInvalidLine =>
    \/ /\ pc = "open" /\ pc' = "open" /\ line' = line + 1
       /\ stdout' = Append(stdout, line')
       /\ UNCHANGED <<stats, offered, ents, kept>>
    \/ /\ diag.pc = "open" /\ diag'.pc = "open"
       /\ diag'.line_num = diag.line_num + 1
       /\ stdout' = Append(stdout, diag'.line_num)
       /\ diag'.stats = diag.stats /\ diag'.failures = diag.failures
    \/ /\ main.pc = "lines" /\ main'.pc = "lines"
       /\ main'.line_num = main.line_num + 1
       /\ validator'.errors
            = Append(validator.errors, Entry(main'.line_num, 0 - 1, "invalid_json"))
       /\ validator'.warnings = validator.warnings
       /\ main'.records = main.records

----------------------------------------------------------------------------
(* Claims about download_edh_inscription (SpecEdh) *)

\* an id that is empty, or neither HD-prefixed nor all digits
InvalidId(id) ==
  \/ \A k \in 1..Len(id) : IsSpace(id[k])
  \/ LET core == Strip(id)
     IN /\ ~(Len(core) >= 2 /\ core[1] \in {"H", "h"} /\ core[2] \in {"D", "d"})
        /\ \E k \in 1..Len(core) : ~IsDigit(core[k])

FailedRequest ==
  \/ edh.response \in {"timeout", "connection_error", "http_error", "invalid_json"}
  \/ edh.response = "ok" /\ edh.data.kind = "dict"
       /\ (edh.data.error = "true" \/ edh.data.inscriptions # "nonempty")

\* C22 as claimed: the file is written only for a body without an 'error'
\* entry and with a non-empty 'inscriptions' entry.
C22_EdhDownloadAsClaimed ==
  edh.files # {} =>
    /\ edh.data.kind = "dict"
    /\ edh.data.error = "absent"
    /\ edh.data.inscriptions = "nonempty"

\* C22: the file <id>.json is written only after one successful request
\* whose JSON body, if it is an object, has no true 'error' value and a
\* non-empty 'inscriptions' value (a body that is no object is saved as it
\* is); an invalid id raises ValueError before any request; a timeout, a
\* connection error, an HTTP error, a body that is no JSON, an API error
\* body and an empty inscriptions list raise ValueError or HTTPError, and
\* in all these cases no file is written.
C22_EdhDownload ==
  /\ edh.files # {} =>
       /\ edh.requests = 1 /\ edh.response = "ok"
       /\ edh.data.kind = "dict" =>
            edh.data.error # "true" /\ edh.data.inscriptions = "nonempty"
       /\ edh.files = {OutputFile(edh.inscription_id)}
       /\ edh.pc \in {"returned", "raised"}
  /\ edh.pc = "returned" =>
       edh.files = {edh.returned} /\ ~InvalidId(edh.arg) /\ ~FailedRequest
  /\ (InvalidId(edh.arg) /\ edh.pc # "validate") =>
       /\ edh.pc = "raised" /\ edh.raised = "ValueError"
       /\ edh.requests = 0 /\ edh.files = {} /\ ~edh.dir
  /\ ~InvalidId(edh.arg) => edh.pc # "raised" \/ edh.requests = 1 \/ edh.raised = "OSError"
  /\ (edh.requests = 1 /\ FailedRequest) =>
       /\ edh.pc = "raised" /\ edh.raised \in {"ValueError", "HTTPError"}
       /\ edh.files = {}
  /\ edh.raised \in {"ValueError", "HTTPError"} => edh.files = {}

\* a numeric id was completed to HD000001 and its inscription saved
C22_Witness ==
  /\ edh.pc = "returned" /\ edh.arg = <<"1">>
  /\ edh.returned = <<"H", "D", "0", "0", "0", "0", "0", "1", ".", "j", "s", "o", "n">>
  /\ edh.data.kind = "dict" /\ edh.data.inscriptions = "nonempty"

\* the number of annotations a step counts for the label: one for an
\* examined triple of that label whose offsets are in bounds
CountedNow(l) ==
  IF /\ ExaminesTyped
     /\ main'.annotation.label = l
     /\ 0 <= main'.annotation.start
     /\ main'.annotation.start < main'.annotation.end
     /\ main'.annotation.end <= Len(main.transcription.chars)
    THEN 1 ELSE 0

C25_Step ==
  \A l \in Labels :
    /\ validator'.entity_counts[l] = validator.entity_counts[l] + CountedNow(l)
    /\ Len(validator'.entity_examples[l]) <= MaxExamples
    /\ Len(validator'.entity_examples[l])
         = Min(MaxExamples, validator'.entity_counts[l])
    /\ SubSeq(validator'.entity_examples[l], 1, Len(validator.entity_examples[l]))
         = validator.entity_examples[l]

\* C25: for every label the validator stores at most five examples, as
\* many as min(5, entity_counts[label]), and entity_counts[label] grows by
\* one exactly for each validated annotation of the label that is in
\* bounds.
C25_ExampleCap == [][C25_Step]_vars

\* a sixth entity of a label was counted and its example not stored
C25_Witness ==
  /\ validator.entity_counts["nomen"] = MaxExamples + 1
  /\ Len(validator.entity_examples["nomen"]) = MaxExamples
  /\ validator.entity_counts["x"] = 0

----------------------------------------------------------------------------
(* Claims about the model cache of latinepi.parser (SpecLoader) *)

C26_Step ==
  loader.calls >= 1 =>
    /\ loader.MODEL_LOADED /\ loader'.MODEL_LOADED
    /\ loader'.attempts = loader.attempts /\ loader.attempts <= 1
    /\ loader'.NER_MODEL = loader.NER_MODEL
    /\ loader'.NER_TOKENIZER = loader.NER_TOKENIZER
    /\ loader'.stderr = loader.stderr
    /\ loader'.calls > loader.calls =>
         /\ loader'.returned = loader.returned
         /\ loader'.returned = <<loader.NER_MODEL, loader.NER_TOKENIZER>>

\* C26: after the first call of _load_ner_model, whether the load
\* succeeded, failed or stub mode was selected, _MODEL_LOADED stays true,
\* no further load is attempted and every later call returns the pair the
\* call before it returned, hence the pair of the first call.
C26_LoadOnce == [][C26_Step]_vars

\* a loaded pipeline was returned by a third call
C26_Witness ==
  /\ loader.pc = "imported" /\ loader.calls >= 3 /\ loader.attempts = 1
  /\ loader.returned[1].kind = "pipeline" /\ loader.returned[1].load = 1
  /\ loader.returned[2].kind = "tokenizer"

----------------------------------------------------------------------------
(* Claims about GeminiAnnotator.annotate_batch (SpecGemini) *)

\* the output file holds one record per inscription, in input order, none
\* with the error marker
OutputComplete ==
  /\ gemini.output.exists
  /\ Len(gemini.output.records) = gemini.total
  /\ \A k \in 1..gemini.total :
       /\ gemini.output.records[k].idx = k - 1
       /\ ~gemini.output.records[k].error

\* a run that was started has ended without being stopped
RunEnded == gemini.pc \in {"done", "crashed"}

\* C30: whatever save_every is and wherever the earlier runs were stopped,
\* a run resumed with resume_from equal to the number of records in the
\* checkpoint file ends with an output file of one record per inscription,
\* in input order, without error markers, and with the checkpoint file
\* removed.
C30_CheckpointResume ==
  (RunEnded /\ gemini.prescribed /\ gemini.runs >= 2) =>
    OutputComplete /\ ~gemini.temp.exists

\* when every checkpoint holds whole lines only, the resumed run completes
\* the output
WholeLineResume ==
  /\ (gemini.pc = "done" /\ gemini.prescribed) =>
       OutputComplete /\ ~gemini.temp.exists
  /\ (gemini.pc = "crashed" /\ gemini.prescribed) =>
       /\ gemini.temp.exists /\ gemini.temp.torn
       /\ Len(gemini.temp.records) >= 1

====
